---- MODULE Spec2Model ----
(***************************************************************************)
(* A model of the text splitters of acai-textsplitter: the TextSplitter    *)
(* base class (constructor, splitOnSeparator, joinDocs, mergeSplits) and   *)
(* its variants.  A string is a sequence of one-character strings, so that *)
(* String.prototype.split, trim, join and indexOf are computed the way the *)
(* JavaScript runtime computes them.                                       *)
(***************************************************************************)
EXTENDS Integers, Sequences, FiniteSets, TLC

VARIABLES
  pc,        \* position of the caller: "new", "ready", "merging", "running", "done", "threw"
  variant,   \* the splitter class that was constructed
  fields,    \* the argument of the constructor (a partial record)
  inst,      \* the fields of the constructed instance
  text,      \* the argument of splitText
  splits,    \* the argument `splits` of the running mergeSplits call
  separator, \* the argument `separator` of the running mergeSplits call
  merge,     \* the locals of the running mergeSplits call
  stack,     \* the activation records of _splitText, innermost last
  result,    \* the value splitText (or mergeSplits) returned
  fresh,     \* for each returned chunk, its text behind the part shared with the chunk before
  again,     \* what splitOnSeparator returns for the chunk that was returned
  spans,     \* TokenTextSplitter.splitText: [startIdx, endIdx] of each slice of inputIds
  job,       \* the arguments and locals of the running createDocuments call
  documents, \* the documents createDocuments has pushed
  parked,    \* the locals of a second splitText call on the same instance, while it does not run
  loop       \* the locals of a while loop of splitText that is run one iteration at a time

others == <<again, spans, job, documents, parked, loop>>

vars == <<pc, variant, fields, inst, text, splits, separator, merge, stack, result, fresh, others>>

----------------------------------------------------------------------------
(* Bounds of the model.                                                    *)

MaxCfg == 3
MaxTextLen == 4
MaxSplits == 3

----------------------------------------------------------------------------
(* Strings.                                                                *)

NL == "\n"
SP == " "

\* String.prototype.trim removes these from both ends (of the model's alphabet).
IsWhitespace(c) == c \in {SP, NL, "\t"}

RECURSIVE TrimStart(_)
TrimStart(s) ==
  IF s = <<>> THEN <<>>
  ELSE IF IsWhitespace(Head(s)) THEN TrimStart(Tail(s)) ELSE s

RECURSIVE TrimEnd(_)
TrimEnd(s) ==
  IF s = <<>> THEN <<>>
  ELSE IF IsWhitespace(s[Len(s)]) THEN TrimEnd(SubSeq(s, 1, Len(s) - 1)) ELSE s

Trim(s) == TrimEnd(TrimStart(s))

\* The sentinel for a JavaScript `undefined` where a string is expected.
Undefined == <<"undefined">>

\* Array.prototype.join: an undefined separator joins with ",".
RECURSIVE Join(_, _)
Join(docs, sep) ==
  IF docs = <<>> THEN <<>>
  ELSE IF Len(docs) = 1 THEN docs[1]
  ELSE docs[1] \o (IF sep = Undefined THEN <<",">> ELSE sep) \o Join(Tail(docs), sep)

\* s.startsWith(sub, at), positions counted from 1.
StartsWithAt(s, sub, at) ==
  /\ at + Len(sub) - 1 <= Len(s)
  /\ \A i \in 1..Len(sub) : s[at + i - 1] = sub[i]

\* String.prototype.includes.
Includes(s, sub) == \E at \in 1..(Len(s) + 1) : StartsWithAt(s, sub, at)

\* All strings over an alphabet up to a length.
RECURSIVE StringsOfLen(_, _)
StringsOfLen(alphabet, n) ==
  IF n = 0 THEN {<<>>}
  ELSE {<<c>> \o s : c \in alphabet, s \in StringsOfLen(alphabet, n - 1)}

StringsUpTo(alphabet, n) == UNION {StringsOfLen(alphabet, k) : k \in 0..n}

----------------------------------------------------------------------------
(* Construction.                                                           *)

DefaultChunkSize == 1000
DefaultChunkOverlap == 200
DefaultMaxLength == 1000

Variants == {"Character", "Recursive", "Token", "Sentence", "Paragraph"}

\* fields?.k ?? dflt
Get(f, k, dflt) == IF k \in DOMAIN f THEN f[k] ELSE dflt

\* { ...base, ...f }
Spread(base, f) ==
  [k \in DOMAIN base \cup DOMAIN f |-> IF k \in DOMAIN f THEN f[k] ELSE base[k]]

\* The object a subclass constructor hands to super(...).
SuperFields(v, f) ==
  IF v \in {"Sentence", "Paragraph"}
  THEN Spread([chunkSize |-> Get(f, "maxLength", DefaultMaxLength),
               chunkOverlap |-> Get(f, "overlap", 0)], f)
  ELSE f

\* TextSplitter.constructor: the two size fields it assigns.
BaseChunkSize(v, f) == Get(SuperFields(v, f), "chunkSize", DefaultChunkSize)
BaseChunkOverlap(v, f) == Get(SuperFields(v, f), "chunkOverlap", DefaultChunkOverlap)

\* (faulty variant: equality is let through)
OverlapTooLargeLax(chunkOverlap, chunkSize) == chunkOverlap > chunkSize
\* The comparison that makes the constructor throw.
OverlapTooLarge(chunkOverlap, chunkSize) == chunkOverlap >= chunkSize

CtorThrows(v, f) == OverlapTooLarge(BaseChunkOverlap(v, f), BaseChunkSize(v, f))

\* keepSeparator of the instance: the base constructor defaults it to false,
\* the recursive splitter reassigns it with default true, the sentence and
\* paragraph splitters pass true to super() unless the caller's fields say else.
KeepSeparatorOf(v, f) ==
  Get(f, "keepSeparator", v \in {"Recursive", "Sentence", "Paragraph"})

\* The sources of the paragraph patterns: the default, and a custom one that
\* matches a line holding the single character b.
DefaultParagraphPattern == "\\n\\s*\\n"
CustomParagraphPattern == "\\nb\\n"

\* The fields of the instance a successful construction leaves.
Constructed(v, f) ==
  [chunkSize     |-> BaseChunkSize(v, f),
   chunkOverlap  |-> BaseChunkOverlap(v, f),
   keepSeparator |-> KeepSeparatorOf(v, f),
   maxLength     |-> Get(f, "maxLength", DefaultMaxLength),
   separator     |-> Get(f, "separator", <<NL, NL>>),
   paragraphPattern |-> Get(f, "paragraphPattern", DefaultParagraphPattern),
   separators    |-> Get(f, "separators", <<<<NL, NL>>, <<NL>>, <<SP>>, <<>>>>)]

NoInstance ==
  [chunkSize |-> 0, chunkOverlap |-> 0, keepSeparator |-> FALSE, maxLength |-> 0,
   separator |-> <<>>, paragraphPattern |-> "", separators |-> <<>>]

\* What a caller may pass: any subset of the numeric fields, and keepSeparator or not.
SizeKeys == {"chunkSize", "chunkOverlap", "maxLength", "overlap"}
CfgValues == (-1..MaxCfg) \cup {DefaultChunkOverlap, DefaultChunkSize}
SizeFields == UNION {[S -> CfgValues] : S \in SUBSET SizeKeys}
KeepFields == {[k \in {} |-> TRUE]} \cup {[keepSeparator |-> b] : b \in BOOLEAN}
AllFields == {Spread(sf, kf) : sf \in SizeFields, kf \in KeepFields}

\* lengthFunction: the default, text.length.
lengthFunction(s) == Len(s)

----------------------------------------------------------------------------
(* joinDocs and mergeSplits.                                               *)

Null == <<"null">>

\* (faulty variant: the empty result is returned instead of null)
joinDocsNoNull(docs, sep) == Trim(Join(docs, sep))

joinDocs(docs, sep) ==
  LET joined == Trim(Join(docs, sep))
  IN IF joined = <<>> THEN Null ELSE joined

\* The locals of mergeSplits at loop entry.  `first` and `seen` are the
\* positions in `splits` of currentDoc's first and last element (the window is
\* splits[first..seen]); `wins`, `flushes` and `warned` record, for every chunk
\* pushed to docs, its window and whether console.warn ran just before it, and
\* `warnings` the totals console.warn reported.
MergeInit ==
  [currentDoc |-> <<>>, total |-> 0, docs |-> <<>>,
   first |-> 1, seen |-> 0, wins |-> <<>>, flushes |-> <<>>, warned |-> <<>>,
   warnings |-> <<>>, threw |-> FALSE]

\* (faulty variant: pop() in place of shift())
RECURSIVE ShrinkBack(_, _)
ShrinkBack(m, chunkOverlap) ==
  IF Len(m.currentDoc) > 0 /\ m.total > chunkOverlap
  THEN ShrinkBack([m EXCEPT !.total = @ - lengthFunction(m.currentDoc[Len(m.currentDoc)]),
                            !.currentDoc = SubSeq(@, 1, Len(@) - 1),
                            !.first = @ + 1], chunkOverlap)
  ELSE m

\* (faulty variant: `if` in place of `while`, one shift at most)
ShrinkOnce(m, chunkOverlap) ==
  IF Len(m.currentDoc) > 0 /\ m.total > chunkOverlap
  THEN [m EXCEPT !.total = @ - lengthFunction(m.currentDoc[1]),
                 !.currentDoc = Tail(@),
                 !.first = @ + 1]
  ELSE m

\* (faulty variant: the loop also runs when total equals chunkOverlap)
RECURSIVE ShrinkStrict(_, _)
ShrinkStrict(m, chunkOverlap) ==
  IF Len(m.currentDoc) > 0 /\ m.total >= chunkOverlap
  THEN ShrinkStrict([m EXCEPT !.total = @ - lengthFunction(m.currentDoc[1]),
                              !.currentDoc = Tail(@),
                              !.first = @ + 1], chunkOverlap)
  ELSE m

\* (faulty variant: the loop stops one unit above chunkOverlap)
RECURSIVE ShrinkLax(_, _)
ShrinkLax(m, chunkOverlap) ==
  IF Len(m.currentDoc) > 0 /\ m.total > chunkOverlap + 1
  THEN ShrinkLax([m EXCEPT !.total = @ - lengthFunction(m.currentDoc[1]),
                           !.currentDoc = Tail(@),
                           !.first = @ + 1], chunkOverlap)
  ELSE m

\* while (currentDoc.length > 0 && total > this.chunkOverlap) { total -= ...; shift() }
RECURSIVE Shrink(_, _)
Shrink(m, chunkOverlap) ==
  IF Len(m.currentDoc) > 0 /\ m.total > chunkOverlap
  THEN Shrink([m EXCEPT !.total = @ - lengthFunction(m.currentDoc[1]),
                        !.currentDoc = Tail(@),
                        !.first = @ + 1], chunkOverlap)
  ELSE m

\* if (currentDoc.length > 0) { joinDocs, push unless null, shrink }
Flush(m, sep, chunkOverlap, warn) ==
  IF Len(m.currentDoc) > 0
  THEN LET doc == joinDocs(m.currentDoc, sep)
           win == <<m.first, m.seen>>
           pushed == IF doc = Null THEN m
                     ELSE [m EXCEPT !.docs = Append(@, doc),
                                    !.wins = Append(@, win),
                                    !.warned = Append(@, warn)]
       IN Shrink([pushed EXCEPT !.flushes = Append(@, win)], chunkOverlap)
  ELSE m

\* (faulty variant: the join separator is not charged)
ExceedsNoSep(m, d, sep, chunkSize) == m.total + lengthFunction(d) > chunkSize

\* The flush test: separator.length is read only when currentDoc is not empty.
Exceeds(m, d, sep, chunkSize) ==
  m.total + lengthFunction(d) + (IF Len(m.currentDoc) > 0 THEN Len(sep) ELSE 0)
    > chunkSize

\* One iteration of `for (const d of splits)`.
MergeIter(m, d, sep, chunkSize, chunkOverlap) ==
  IF m.threw THEN m
  ELSE IF Len(m.currentDoc) > 0 /\ sep = Undefined THEN [m EXCEPT !.threw = TRUE]
  ELSE
    LET warn == m.total > chunkSize
        noted == IF Exceeds(m, d, sep, chunkSize) /\ warn
                 THEN [m EXCEPT !.warnings = Append(@, m.total)] ELSE m
        flushed == IF Exceeds(m, d, sep, chunkSize)
                   THEN Flush(noted, sep, chunkOverlap, warn) ELSE noted
    IN [flushed EXCEPT !.currentDoc = Append(@, d),
                       !.total = @ + lengthFunction(d),
                       !.seen = @ + 1]

\* "Handle the last chunk" and return docs.
MergeFinal(m, sep) ==
  IF m.threw THEN m
  ELSE LET doc == joinDocs(m.currentDoc, sep)
           win == <<m.first, m.seen>>
       IN IF doc = Null THEN [m EXCEPT !.flushes = Append(@, win)]
          ELSE [m EXCEPT !.docs = Append(@, doc),
                         !.wins = Append(@, win),
                         !.flushes = Append(@, win),
                         !.warned = Append(@, FALSE)]

RECURSIVE MergeLoop(_, _, _, _, _)
MergeLoop(m, rest, sep, chunkSize, chunkOverlap) ==
  IF rest = <<>> THEN m
  ELSE MergeLoop(MergeIter(m, Head(rest), sep, chunkSize, chunkOverlap),
                 Tail(rest), sep, chunkSize, chunkOverlap)

\* mergeSplits as one call: the locals when it returns (docs is the result).
mergeSplits(spl, sep, chunkSize, chunkOverlap) ==
  MergeFinal(MergeLoop(MergeInit, spl, sep, chunkSize, chunkOverlap), sep)

\* For the chunks of one mergeSplits call: each chunk without the characters
\* of the fragments (and the join separator behind them) that its window
\* shares with the window of the chunk before it.
Max(a, b) == IF a >= b THEN a ELSE b

FreshParts(m, spl, sep) ==
  [i \in 1..Len(m.docs) |->
     LET lo == m.wins[i][1]
         hi == m.wins[i][2]
         prevHi == IF i = 1 THEN 0 ELSE m.wins[i - 1][2]
         joined == Join(SubSeq(spl, lo, hi), sep)
         lead == Len(joined) - Len(TrimStart(joined))
         shared == IF lo <= prevHi
                   THEN Len(Join(SubSeq(spl, lo, prevHi), sep))
                          + (IF sep = Undefined THEN 1 ELSE Len(sep))
                   ELSE 0
     IN SubSeq(m.docs[i], Max(0, shared - lead) + 1, Len(m.docs[i]))]

----------------------------------------------------------------------------
(* splitOnSeparator.                                                       *)

\* text.split(separator) for a non-empty string separator: the pieces between
\* the occurrences found left to right, empty pieces included.
RECURSIVE SplitPlainFrom(_, _, _, _)
SplitPlainFrom(s, sep, start, at) ==
  IF at + Len(sep) - 1 > Len(s) THEN <<SubSeq(s, start, Len(s))>>
  ELSE IF StartsWithAt(s, sep, at)
       THEN <<SubSeq(s, start, at - 1)>>
              \o SplitPlainFrom(s, sep, at + Len(sep), at + Len(sep))
       ELSE SplitPlainFrom(s, sep, start, at + 1)

SplitPlain(s, sep) == SplitPlainFrom(s, sep, 1, 1)

\* text.split(/(?=separator)/): a cut in front of every occurrence of the
\* separator that does not start the text; the matches are zero-width, so
\* occurrences that overlap each other are all cut at.
RECURSIVE SplitLookaheadFrom(_, _, _, _)
SplitLookaheadFrom(s, sep, start, at) ==
  IF at > Len(s) THEN <<SubSeq(s, start, Len(s))>>
  ELSE IF at > start /\ StartsWithAt(s, sep, at)
       THEN <<SubSeq(s, start, at - 1)>> \o SplitLookaheadFrom(s, sep, at, at)
       ELSE SplitLookaheadFrom(s, sep, start, at + 1)

SplitLookahead(s, sep) == SplitLookaheadFrom(s, sep, 1, 1)

\* text.split(""): the characters.
SplitChars(s) == [i \in 1..Len(s) |-> <<s[i]>>]

\* splits.filter((s) => s !== "")
NonEmpty(p) == p # <<>>

\* (faulty variant: with keepSeparator the separator is dropped all the same)
splitOnSeparatorDropping(txt, sep, keepSeparator) ==
  SelectSeq(IF sep # <<>> /\ sep # Undefined THEN SplitPlain(txt, sep) ELSE SplitChars(txt),
            NonEmpty)

\* splitOnSeparator: an empty or undefined separator is falsy.
splitOnSeparator(txt, sep, keepSeparator) ==
  SelectSeq(IF sep # <<>> /\ sep # Undefined
            THEN (IF keepSeparator THEN SplitLookahead(txt, sep) ELSE SplitPlain(txt, sep))
            ELSE SplitChars(txt),
            NonEmpty)

----------------------------------------------------------------------------
(* States shared by the specifications.                                    *)

NoFields == [k \in {} |-> 0]

\* The configurations the splitting specifications construct their instance
\* from: chunkSize and chunkOverlap are given, keepSeparator is given or not.
SplitFields ==
  {Spread([chunkSize |-> cs, chunkOverlap |-> co], kf) :
     cs \in 1..MaxCfg, co \in 0..MaxCfg, kf \in KeepFields}

SizeOnlyFields == {f \in SplitFields : "keepSeparator" \notin DOMAIN f}

\* No second splitText call.
NoCall == [pc |-> "none"]

\* No createDocuments call.
NoJob == [pc |-> "none"]

\* No loop run one iteration at a time.
NoLoop == [pc |-> "none"]

NoOthers ==
  /\ again = <<>> /\ spans = <<>>
  /\ job = NoJob /\ documents = <<>>
  /\ parked = NoCall
  /\ loop = NoLoop

----------------------------------------------------------------------------
(* Construction: new XSplitter(fields).                                    *)

Construct ==
  /\ pc = "new"
  /\ \E v \in Variants, f \in AllFields :
       /\ variant' = v
       /\ fields' = f
       /\ IF CtorThrows(v, f)
          THEN pc' = "threw" /\ inst' = NoInstance
          ELSE pc' = "ready" /\ inst' = Constructed(v, f)
  /\ UNCHANGED <<text, splits, separator, merge, stack, result, fresh, others>>

InitCtor ==
  /\ pc = "new" /\ variant = "none" /\ fields = NoFields /\ inst = NoInstance
  /\ text = <<>> /\ splits = <<>> /\ separator = <<>>
  /\ merge = MergeInit /\ stack = <<>> /\ result = <<>> /\ fresh = <<>>
  /\ NoOthers

NextCtor == Construct

SpecCtor == InitCtor /\ [][NextCtor]_vars

----------------------------------------------------------------------------
(* mergeSplits(splits, separator), one loop iteration per step.            *)

MaxFragLen == 4

\* Fragments: empty, blank, with leading and trailing blanks, and of every
\* size up to MaxFragLen.
RECURSIVE Repeat(_, _)
Repeat(c, n) == IF n = 0 THEN <<>> ELSE <<c>> \o Repeat(c, n - 1)

Fragments ==
  {<<>>, <<SP>>, <<SP, "a">>, <<"a", SP>>} \cup {Repeat("a", k) : k \in 1..MaxFragLen}

RECURSIVE SeqsOfLen(_, _)
SeqsOfLen(S, n) ==
  IF n = 0 THEN {<<>>}
  ELSE {<<x>> \o s : x \in S, s \in SeqsOfLen(S, n - 1)}

SeqsUpTo(S, n) == UNION {SeqsOfLen(S, k) : k \in 0..n}

MergeSeparators == {<<>>, <<SP>>, <<"-", "-">>}

InitMerge ==
  /\ pc = "merging"
  /\ variant = "Character"
  /\ fields \in {f \in SizeOnlyFields : ~CtorThrows("Character", f)}
  /\ inst = Constructed(variant, fields)
  /\ text = <<>>
  /\ splits \in SeqsUpTo(Fragments, MaxSplits)
  /\ separator \in MergeSeparators
  /\ merge = MergeInit
  /\ stack = <<>>
  /\ result = <<>>
  /\ fresh = <<>>
  /\ NoOthers

MergeStep ==
  /\ pc = "merging"
  /\ merge.seen < Len(splits)
  /\ merge' = MergeIter(merge, splits[merge.seen + 1], separator,
                        inst.chunkSize, inst.chunkOverlap)
  /\ UNCHANGED <<pc, variant, fields, inst, text, splits, separator, stack, result, fresh, others>>

MergeReturn ==
  /\ pc = "merging"
  /\ merge.seen = Len(splits)
  /\ merge' = MergeFinal(merge, separator)
  /\ result' = merge'.docs
  /\ fresh' = FreshParts(merge', splits, separator)
  /\ pc' = "done"
  /\ UNCHANGED <<variant, fields, inst, text, splits, separator, stack, others>>

NextMerge == MergeStep \/ MergeReturn

SpecMerge == InitMerge /\ [][NextMerge]_vars

----------------------------------------------------------------------------
(* CharacterTextSplitter.splitText.                                        *)

Alphabet == {"a", "-", SP, NL}

Texts == StringsUpTo(Alphabet, MaxTextLen)

CharSeparators == {<<NL>>, <<NL, NL>>, <<"-">>}

CharFields ==
  {f \in SplitFields : ~CtorThrows("Character", f)}
    \cup {Spread(f, [separator |-> sep]) :
            f \in {g \in SplitFields : ~CtorThrows("Character", g)},
            sep \in CharSeparators}

\* Configurations whose chunkSize is at least the size of the text: the
\* default sizes, and a chunkSize of exactly the size of the text.
WideFields(txt) ==
  {Spread(Spread(sz, kf), [separator |-> sep]) :
     sz \in {NoFields, [chunkSize |-> Max(1, Len(txt)), chunkOverlap |-> 0]},
     kf \in KeepFields, sep \in CharSeparators}

\* The example of usage.ts.
UsageChunkSize == 100
UsageChunkOverlap == 20
UsageFields ==
  [chunkSize |-> UsageChunkSize, chunkOverlap |-> UsageChunkOverlap, separator |-> <<NL>>]
UsageLine1 ==
  <<"T", "h", "i", "s", " ", "i", "s", " ", "a", " ", "l", "o", "n", "g",
    " ", "t", "e", "x", "t", ".">>
UsageLine2 ==
  <<"I", "t", " ", "w", "i", "l", "l", " ", "b", "e", " ", "s", "p", "l",
    "i", "t", ".">>
UsageLine3 ==
  <<"I", "n", "t", "o", " ", "s", "m", "a", "l", "l", "e", "r", " ", "c",
    "h", "u", "n", "k", "s", ".">>
UsageText == UsageLine1 \o <<NL>> \o UsageLine2 \o <<NL>> \o UsageLine3

InitChar ==
  /\ pc = "ready"
  /\ variant = "Character"
  /\ \/ fields \in CharFields /\ text \in Texts
     \/ text \in Texts /\ fields \in WideFields(text)
     \/ fields = UsageFields /\ text = UsageText
  /\ ~CtorThrows(variant, fields)
  /\ inst = Constructed(variant, fields)
  /\ splits = <<>> /\ separator = <<>>
  /\ merge = MergeInit /\ stack = <<>> /\ result = <<>> /\ fresh = <<>>
  /\ NoOthers

\* (faulty variant: the two join separators are swapped)
CharJoinSeparatorSwapped(i) == IF i.keepSeparator THEN i.separator ELSE <<>>

\* this.keepSeparator ? "" : this.separator
CharJoinSeparator(i) == IF i.keepSeparator THEN <<>> ELSE i.separator

\* splitText up to the call of mergeSplits, whose loop MergeStep and
\* MergeReturn run.
CharSplitText ==
  /\ pc = "ready"
  /\ variant = "Character"
  /\ splits' = splitOnSeparator(text, inst.separator, inst.keepSeparator)
  /\ separator' = CharJoinSeparator(inst)
  /\ merge' = MergeInit
  /\ pc' = "merging"
  /\ UNCHANGED <<variant, fields, inst, text, stack, result, fresh, others>>

----------------------------------------------------------------------------
(* RecursiveCharacterTextSplitter._splitText, one activation record per    *)
(* call and one step per fragment of its loop.                             *)

RecAlphabet == {"a", SP, NL}

RecTexts == StringsUpTo(RecAlphabet, MaxTextLen)

DefaultSeparators == <<<<NL, NL>>, <<NL>>, <<SP>>, <<>>>>

\* Separator lists a caller may configure: the default, lists that do not end
\* with the empty string, and one with the empty string in front.
SeparatorLists ==
  {DefaultSeparators, <<<<SP>>>>, <<<<NL>>, <<SP>>>>, <<<<>>, <<SP>>>>}

RecFields ==
  {Spread(f, [separators |-> l]) :
     f \in {g \in SplitFields : ~CtorThrows("Recursive", g)}, l \in SeparatorLists}

\* (faulty variant: no `if (s === "")` test, an empty string is passed over)
RECURSIVE FirstUsableSkippingEmpty(_, _, _)
FirstUsableSkippingEmpty(txt, seps, i) ==
  IF i > Len(seps) THEN 0
  ELSE IF seps[i] # <<>> /\ Includes(txt, seps[i]) THEN i
  ELSE FirstUsableSkippingEmpty(txt, seps, i + 1)

\* The index the selection loop breaks at: the first separator that is the
\* empty string or occurs in the text; 0 when the loop runs to its end.
RECURSIVE FirstUsable(_, _, _)
FirstUsable(txt, seps, i) ==
  IF i > Len(seps) THEN 0
  ELSE IF seps[i] = <<>> \/ Includes(txt, seps[i]) THEN i
  ELSE FirstUsable(txt, seps, i + 1)

\* (faulty variant: separators.slice(i), the selected separator is kept)
RestAfterKeeping(seps, i) == SubSeq(seps, i, Len(seps))

\* separators.slice(i + 1)
RestAfter(seps, i) == SubSeq(seps, i + 1, Len(seps))

\* The locals of _splitText(txt, seps) when its loop over splits begins.
\* newSeparators stays undefined (hasNew = FALSE) unless a non-empty separator
\* was found in the text; an empty array is a defined, truthy value.
Enter(txt, seps, keepSeparator) ==
  LET i == FirstUsable(txt, seps, 1)
      sel == IF i > 0 THEN seps[i]
             ELSE IF Len(seps) > 0 THEN seps[Len(seps)] ELSE Undefined
      found == i > 0 /\ seps[i] # <<>>
  IN [text |-> txt,
      separators |-> seps,
      separator |-> sel,
      hasNew |-> found,
      newSeparators |-> IF found THEN RestAfter(seps, i) ELSE <<>>,
      splits |-> splitOnSeparator(txt, sel, keepSeparator),
      k |-> 1,
      goodSplits |-> <<>>,
      finalChunks |-> <<>>,
      finalFresh |-> <<>>]

Top == stack[Len(stack)]

\* const _separator = this.keepSeparator ? "" : separator
RecJoinSeparator(fr) == IF inst.keepSeparator THEN <<>> ELSE fr.separator

\* mergeSplits(goodSplits, _separator) of a frame.
GoodMerged(fr) ==
  mergeSplits(fr.goodSplits, RecJoinSeparator(fr), inst.chunkSize, inst.chunkOverlap)

\* if (goodSplits.length > 0) { finalChunks.push(...mergeSplits(...)); goodSplits = [] }
FlushGood(fr) ==
  IF Len(fr.goodSplits) > 0
  THEN [fr EXCEPT !.finalChunks = @ \o GoodMerged(fr).docs,
                  !.finalFresh = @ \o FreshParts(GoodMerged(fr), fr.goodSplits,
                                                 RecJoinSeparator(fr)),
                  !.goodSplits = <<>>]
  ELSE fr

\* The call of mergeSplits a flush makes throws (separator.length of undefined).
FlushThrows(fr) == Len(fr.goodSplits) > 0 /\ GoodMerged(fr).threw

\* (faulty variant: <= in place of <)
IsGoodLax(s, chunkSize) == lengthFunction(s) <= chunkSize

\* if (this.lengthFunction(s) < this.chunkSize)
IsGood(s, chunkSize) == lengthFunction(s) < chunkSize

WithTop(fr) == [stack EXCEPT ![Len(stack)] = fr]

InitRec ==
  /\ pc = "new"
  /\ variant = "Recursive"
  /\ fields = NoFields /\ inst = NoInstance /\ text = <<>>
  /\ splits = <<>> /\ separator = <<>>
  /\ merge = MergeInit /\ stack = <<>> /\ result = <<>> /\ fresh = <<>>
  /\ NoOthers

\* new RecursiveCharacterTextSplitter(fields), and the caller's choice of text.
CanRecConstruct == pc = "new" /\ variant = "Recursive"

RecConstruct ==
  /\ CanRecConstruct
  /\ \E f \in RecFields, t \in RecTexts :
       /\ fields' = f
       /\ inst' = Constructed(variant, f)
       /\ text' = t
  /\ pc' = "ready"
  /\ UNCHANGED <<variant, splits, separator, merge, stack, result, fresh, others>>

\* splitText(text): return this._splitText(text, this.separators)
CanRecSplitText == pc = "ready" /\ variant = "Recursive"

RecSplitText ==
  /\ CanRecSplitText
  /\ stack' = <<Enter(text, inst.separators, inst.keepSeparator)>>
  /\ pc' = "running"
  /\ UNCHANGED <<variant, fields, inst, text, splits, separator, merge, result, fresh, others>>

\* A fragment below chunkSize joins the good run.
CanRecGood ==
  /\ pc = "running"
  /\ Top.k <= Len(Top.splits)
  /\ IsGood(Top.splits[Top.k], inst.chunkSize)

RecGood ==
  /\ CanRecGood
  /\ stack' = WithTop([Top EXCEPT !.goodSplits = Append(@, Top.splits[Top.k]),
                                  !.k = @ + 1])
  /\ UNCHANGED <<pc, variant, fields, inst, text, splits, separator, merge, result, fresh, others>>

\* A fragment at or above chunkSize with newSeparators set: the good run is
\* flushed and _splitText is called on the fragment.
CanRecRecurse ==
  /\ pc = "running"
  /\ Top.k <= Len(Top.splits)
  /\ ~IsGood(Top.splits[Top.k], inst.chunkSize)
  /\ Top.hasNew

RecRecurse ==
  /\ CanRecRecurse
  /\ IF FlushThrows(Top)
     THEN pc' = "threw" /\ stack' = <<>>
     ELSE /\ pc' = pc
          /\ stack' = Append(WithTop([FlushGood(Top) EXCEPT !.k = @ + 1]),
                             Enter(Top.splits[Top.k], Top.newSeparators,
                                   inst.keepSeparator))
  /\ UNCHANGED <<variant, fields, inst, text, splits, separator, merge, result, fresh, others>>

\* A fragment at or above chunkSize with newSeparators undefined: the good run
\* is flushed and the fragment is pushed as it is.
CanRecVerbatim ==
  /\ pc = "running"
  /\ Top.k <= Len(Top.splits)
  /\ ~IsGood(Top.splits[Top.k], inst.chunkSize)
  /\ ~Top.hasNew

RecVerbatim ==
  /\ CanRecVerbatim
  /\ IF FlushThrows(Top)
     THEN pc' = "threw" /\ stack' = <<>>
     ELSE /\ pc' = pc
          /\ stack' = WithTop([FlushGood(Top) EXCEPT
                                 !.finalChunks = Append(@, Top.splits[Top.k]),
                                 !.finalFresh = Append(@, Top.splits[Top.k]),
                                 !.k = @ + 1])
  /\ UNCHANGED <<variant, fields, inst, text, splits, separator, merge, result, fresh, others>>

\* The loop is over: the good run is flushed and finalChunks returned, to the
\* calling _splitText (which pushes them to its own finalChunks) or to splitText.
CanRecReturn == pc = "running" /\ Top.k > Len(Top.splits)

RecReturn ==
  /\ CanRecReturn
  /\ IF FlushThrows(Top)
     THEN pc' = "threw" /\ stack' = <<>> /\ UNCHANGED <<result, fresh>>
     ELSE IF Len(stack) = 1
     THEN /\ pc' = "done"
          /\ stack' = <<>>
          /\ result' = FlushGood(Top).finalChunks
          /\ fresh' = FlushGood(Top).finalFresh
     ELSE /\ pc' = pc
          /\ stack' = [SubSeq(stack, 1, Len(stack) - 1) EXCEPT
                         ![Len(stack) - 1].finalChunks = @ \o FlushGood(Top).finalChunks,
                         ![Len(stack) - 1].finalFresh = @ \o FlushGood(Top).finalFresh]
          /\ UNCHANGED <<result, fresh>>
  /\ UNCHANGED <<variant, fields, inst, text, splits, separator, merge, others>>

NextRec == RecConstruct \/ RecSplitText \/ RecGood \/ RecRecurse \/ RecVerbatim \/ RecReturn

SpecRec == InitRec /\ [][NextRec]_vars

----------------------------------------------------------------------------
(* TokenTextSplitter.splitText.  The tokenizer is js-tiktoken; the model's  *)
(* tokenizer merges the pairs of its vocabulary greedily from the left and  *)
(* decodes by concatenation, so decode(encode(t)) = t.                      *)

TokenAlphabet == {"a", SP}

TokenTexts == StringsUpTo(TokenAlphabet, MaxTextLen)

Vocabulary == {<<"a", "a">>, <<SP, "a">>}

\* tokenizer.encode(text): a token is written as the characters it stands for.
RECURSIVE Encode(_)
Encode(s) ==
  IF s = <<>> THEN <<>>
  ELSE IF Len(s) >= 2 /\ SubSeq(s, 1, 2) \in Vocabulary
       THEN <<SubSeq(s, 1, 2)>> \o Encode(SubSeq(s, 3, Len(s)))
       ELSE <<SubSeq(s, 1, 1)>> \o Encode(Tail(s))

\* tokenizer.decode(ids)
RECURSIVE Decode(_)
Decode(ids) == IF ids = <<>> THEN <<>> ELSE Head(ids) \o Decode(Tail(ids))

Min(a, b) == IF a <= b THEN a ELSE b

\* (faulty variant: startIdx does not retreat by chunkOverlap)
RECURSIVE TokenSpansNoRetreat(_, _, _, _)
TokenSpansNoRetreat(n, startIdx, chunkSize, chunkOverlap) ==
  IF startIdx < n
  THEN <<<<startIdx, Min(startIdx + chunkSize, n)>>>>
         \o TokenSpansNoRetreat(n, Min(startIdx + chunkSize, n), chunkSize, chunkOverlap)
  ELSE <<>>

\* The while loop of splitText over n tokens, from a value of startIdx
\* (counted from 0): the values of startIdx and endIdx that each
\* inputIds.slice(startIdx, endIdx) is called with.
RECURSIVE TokenSpans(_, _, _, _)
TokenSpans(n, startIdx, chunkSize, chunkOverlap) ==
  IF startIdx < n
  THEN LET from == IF startIdx > 0 THEN startIdx - chunkOverlap ELSE startIdx
           endIdx == Min(from + chunkSize, n)
       IN <<<<from, endIdx>>>> \o TokenSpans(n, endIdx, chunkSize, chunkOverlap)
  ELSE <<>>

\* The chunks the loop pushes: the decoding of each slice.
TokenWindows(inputIds, startIdx, chunkSize, chunkOverlap) ==
  LET sp == TokenSpans(Len(inputIds), startIdx, chunkSize, chunkOverlap)
  IN [k \in 1..Len(sp) |-> Decode(SubSeq(inputIds, sp[k][1] + 1, sp[k][2]))]

TokenSplitText ==
  /\ pc = "ready"
  /\ variant = "Token"
  /\ result' = TokenWindows(Encode(text), 0, inst.chunkSize, inst.chunkOverlap)
  /\ spans' = TokenSpans(Len(Encode(text)), 0, inst.chunkSize, inst.chunkOverlap)
  /\ pc' = "done"
  /\ UNCHANGED <<variant, fields, inst, text, splits, separator, merge, stack, fresh,
                 again, job, documents, parked, loop>>

----------------------------------------------------------------------------
(* The loop shared by ParagraphSplitter.splitText and                      *)
(* SentenceSplitter.splitText: long units are cut, short ones accumulated.  *)

MaxUnitTextLen == 5

\* chunk.lastIndexOf(' '), counted from 0; -1 when there is none.
RECURSIVE LastIndexOfSpace(_)
LastIndexOfSpace(s) ==
  IF s = <<>> THEN -1
  ELSE IF s[Len(s)] = SP THEN Len(s) - 1
  ELSE LastIndexOfSpace(SubSeq(s, 1, Len(s) - 1))

\* while (remainingText.length > 0) { ... }: the pieces pushed.
RECURSIVE HardSplit(_, _)
HardSplit(remainingText, maxLength) ==
  IF Len(remainingText) > 0
  THEN LET chunk == SubSeq(remainingText, 1, Min(maxLength, Len(remainingText)))
           lastSpaceIndex == LastIndexOfSpace(chunk)
           splitIndex == IF lastSpaceIndex > 0 THEN lastSpaceIndex ELSE maxLength
       IN <<SubSeq(remainingText, 1, Min(splitIndex, Len(remainingText)))>>
            \o HardSplit(Trim(SubSeq(remainingText, splitIndex + 1, Len(remainingText))),
                         maxLength)
  ELSE <<>>

\* if (currentChunk) normalized.push(currentChunk), on the loop's state
\* acc = [out, currentChunk]; `trimOnPush` tells the sentence splitter's
\* push of currentChunk.trim() from the paragraph splitter's plain push.
PushCurrent(acc, trimOnPush) ==
  IF acc.currentChunk # <<>>
  THEN Append(acc.out, IF trimOnPush THEN Trim(acc.currentChunk) ELSE acc.currentChunk)
  ELSE acc.out

\* The branch for a unit longer than maxLength: its pieces are pushed and
\* currentChunk is reset, whatever it held.
LongUnit(acc, unit, maxLength, trimOnPush) ==
  [out |-> acc.out \o HardSplit(unit, maxLength), currentChunk |-> <<>>]

\* One turn of the for loop; `glue` joins currentChunk and the unit.
UnitStep(acc, unit, glue, maxLength, trimOnPush) ==
  IF lengthFunction(unit) > maxLength
  THEN LongUnit(acc, unit, maxLength, trimOnPush)
  ELSE IF acc.currentChunk # <<>>
          /\ lengthFunction(acc.currentChunk \o glue \o unit) <= maxLength
  THEN [acc EXCEPT !.currentChunk = @ \o glue \o unit]
  ELSE [out |-> PushCurrent(acc, trimOnPush), currentChunk |-> unit]

RECURSIVE UnitLoop(_, _, _, _, _)
UnitLoop(acc, rest, glue, maxLength, trimOnPush) ==
  IF rest = <<>> THEN acc
  ELSE UnitLoop(UnitStep(acc, Head(rest), glue, maxLength, trimOnPush),
                Tail(rest), glue, maxLength, trimOnPush)

\* The normalized list after the loop and the push of what is left.
Normalized(units, glue, maxLength, trimOnPush) ==
  PushCurrent(UnitLoop([out |-> <<>>, currentChunk |-> <<>>], units, glue,
                       maxLength, trimOnPush),
              trimOnPush)

\* if (this.chunkOverlap > 0) return this.mergeSplits(normalized, glue)
WithOverlap(normalized, glue, i) ==
  IF i.chunkOverlap > 0
  THEN mergeSplits(normalized, glue, i.chunkSize, i.chunkOverlap).docs
  ELSE normalized

\* The locals of that mergeSplits call when it returns; no call, no locals.
OverlapMerge(normalized, glue, i) ==
  IF i.chunkOverlap > 0 /\ normalized # <<>>
  THEN mergeSplits(normalized, glue, i.chunkSize, i.chunkOverlap)
  ELSE MergeInit

\* p.trim().length > 0, and p.trim()
NotBlank(p) == Trim(p) # <<>>
TrimAll(ps) == [i \in 1..Len(ps) |-> Trim(ps[i])]

\* The configurations of the sentence splitter: maxLength and overlap, or
\* nothing at all (the defaults).
UnitFields ==
  {[maxLength |-> ml, overlap |-> ov] : ml \in 1..MaxCfg, ov \in 0..MaxCfg}
    \cup {[k \in {} |-> 0]}

\* The configurations of the paragraph splitter: the same, with a custom
\* pattern or without.
ParagraphFields ==
  UnitFields \cup {Spread(f, [paragraphPattern |-> CustomParagraphPattern]) : f \in UnitFields}

----------------------------------------------------------------------------
(* ParagraphSplitter.splitText.                                            *)

ParaAlphabet == {"a", "b", SP, NL}

ParaTexts == StringsUpTo(ParaAlphabet, MaxUnitTextLen)

\* The end of the match of /\n\s*\n/ that starts at `at`, 0 when there is
\* none: \s* is greedy, so the match runs to the last line break of the
\* whitespace that follows the first one.
RECURSIVE LastBreakInRun(_, _, _)
LastBreakInRun(s, at, best) ==
  IF at > Len(s) \/ ~IsWhitespace(s[at]) THEN best
  ELSE LastBreakInRun(s, at + 1, IF s[at] = NL THEN at ELSE best)

ParagraphMatchEnd(s, at) ==
  IF s[at] = NL THEN LastBreakInRun(s, at + 1, 0) ELSE 0

\* The end of the match of /\nb\n/ that starts at `at`, 0 when there is none.
CustomMatchEnd(s, at) ==
  IF StartsWithAt(s, <<NL, "b", NL>>, at) THEN at + 2 ELSE 0

\* The end of the match of this.paragraphPattern that starts at `at`.
PatternMatchEnd(pattern, s, at) ==
  IF pattern = DefaultParagraphPattern THEN ParagraphMatchEnd(s, at)
  ELSE CustomMatchEnd(s, at)

\* text.split(this.paragraphPattern)
RECURSIVE SplitParagraphsFrom(_, _, _, _)
SplitParagraphsFrom(pattern, s, start, at) ==
  IF at > Len(s) THEN <<SubSeq(s, start, Len(s))>>
  ELSE IF PatternMatchEnd(pattern, s, at) > 0
       THEN <<SubSeq(s, start, at - 1)>>
              \o SplitParagraphsFrom(pattern, s, PatternMatchEnd(pattern, s, at) + 1,
                                     PatternMatchEnd(pattern, s, at) + 1)
       ELSE SplitParagraphsFrom(pattern, s, start, at + 1)

\* const paragraphs = text.split(...).filter(...).map(...)
Paragraphs(txt, pattern) ==
  TrimAll(SelectSeq(SplitParagraphsFrom(pattern, txt, 1, 1), NotBlank))

ParagraphGlue == <<NL, NL>>

\* normalizedParagraphs
normalizedParagraphs(txt, i) ==
  IF Trim(txt) = <<>> THEN <<>>
  ELSE Normalized(Paragraphs(txt, i.paragraphPattern), ParagraphGlue, i.maxLength, FALSE)

paragraphSplitText(txt, i) ==
  IF Trim(txt) = <<>> THEN <<>>
  ELSE WithOverlap(normalizedParagraphs(txt, i), ParagraphGlue, i)

\* splitText as one step; splits, separator and merge record the call of
\* mergeSplits it ends with when the overlap is positive.
ParagraphSplitText ==
  /\ pc = "ready"
  /\ variant = "Paragraph"
  /\ splits' = normalizedParagraphs(text, inst)
  /\ separator' = ParagraphGlue
  /\ merge' = OverlapMerge(splits', ParagraphGlue, inst)
  /\ result' = paragraphSplitText(text, inst)
  /\ pc' = "done"
  /\ UNCHANGED <<variant, fields, inst, text, stack, fresh, others>>

----------------------------------------------------------------------------
(* SentenceSplitter.splitText.                                             *)

SentAlphabet == {"D", "r", ".", SP}

SentTexts == StringsUpTo(SentAlphabet, MaxUnitTextLen)

\* The default abbreviations that can be written in SentAlphabet.
Abbreviations == {<<"D", "r", ".">>}

IsWordChar(c) == c \in {"D", "r", "a", "b"}
IsUpper(c) == c = "D"
IsPunct(c) == c \in {".", "!", "?"}

\* The last position of the run of whitespace that starts at `at`.
RECURSIVE WhitespaceRunEnd(_, _)
WhitespaceRunEnd(s, at) ==
  IF at + 1 <= Len(s) /\ IsWhitespace(s[at + 1]) THEN WhitespaceRunEnd(s, at + 1)
  ELSE at

\* text.replace(/\s+/g, ' ')
RECURSIVE CollapseWhitespace(_, _)
CollapseWhitespace(s, at) ==
  IF at > Len(s) THEN <<>>
  ELSE IF IsWhitespace(s[at])
       THEN <<SP>> \o CollapseWhitespace(s, WhitespaceRunEnd(s, at) + 1)
       ELSE <<s[at]>> \o CollapseWhitespace(s, at + 1)

\* processedText.replace(new RegExp(abbr + "\\s+", "g"), abbr + " ")
RECURSIVE ReplaceAbbreviation(_, _, _)
ReplaceAbbreviation(s, abbr, at) ==
  IF at > Len(s) THEN <<>>
  ELSE IF /\ StartsWithAt(s, abbr, at)
          /\ at + Len(abbr) <= Len(s)
          /\ IsWhitespace(s[at + Len(abbr)])
       THEN abbr \o <<SP>>
              \o ReplaceAbbreviation(s, abbr, WhitespaceRunEnd(s, at + Len(abbr)) + 1)
       ELSE <<s[at]>> \o ReplaceAbbreviation(s, abbr, at + 1)

RECURSIVE ReplaceAbbreviations(_, _)
ReplaceAbbreviations(s, abbrs) ==
  IF abbrs = {} THEN s
  ELSE LET abbr == CHOOSE a \in abbrs : TRUE
       IN ReplaceAbbreviations(ReplaceAbbreviation(s, abbr, 1), abbrs \ {abbr})

\* \b just before position `at`.
WordBoundaryBefore(s, at) ==
  (at > 1 /\ IsWordChar(s[at - 1])) # (at <= Len(s) /\ IsWordChar(s[at]))

\* \b(?:abbreviations) matches the text that ends just before position `at`:
\* what the pattern's negative lookbehind forbids.
AbbreviationEndsBefore(s, at) ==
  \E abbr \in Abbreviations :
    /\ at - Len(abbr) >= 1
    /\ SubSeq(s, at - Len(abbr), at - 1) = abbr
    /\ WordBoundaryBefore(s, at - Len(abbr))

\* The end of the match of sentencePattern that starts at `at`, 0 when there
\* is none: the lookbehind, one of . ! ?, whitespace, and a capital after it.
SentenceMatchEnd(s, at) ==
  IF /\ ~AbbreviationEndsBefore(s, at)
     /\ IsPunct(s[at])
     /\ at + 1 <= Len(s)
     /\ IsWhitespace(s[at + 1])
     /\ WhitespaceRunEnd(s, at + 1) + 1 <= Len(s)
     /\ IsUpper(s[WhitespaceRunEnd(s, at + 1) + 1])
  THEN WhitespaceRunEnd(s, at + 1)
  ELSE 0

\* processedText.split(this.sentencePattern): the pattern has a capture
\* group, so the punctuation matched is an element of its own.
RECURSIVE SplitSentencesFrom(_, _, _)
SplitSentencesFrom(s, start, at) ==
  IF at > Len(s) THEN <<SubSeq(s, start, Len(s))>>
  ELSE IF SentenceMatchEnd(s, at) > 0
       THEN <<SubSeq(s, start, at - 1), <<s[at]>>>>
              \o SplitSentencesFrom(s, SentenceMatchEnd(s, at) + 1,
                                    SentenceMatchEnd(s, at) + 1)
       ELSE SplitSentencesFrom(s, start, at + 1)

ProcessedText(txt) ==
  ReplaceAbbreviations(Trim(CollapseWhitespace(txt, 1)), Abbreviations)

\* const sentences = processedText.split(...).filter(...).map(...)
Sentences(txt) ==
  TrimAll(SelectSeq(SplitSentencesFrom(ProcessedText(txt), 1, 1), NotBlank))

SentenceGlue == <<SP>>

\* normalizedSentences
normalizedSentences(txt, i) ==
  IF Trim(txt) = <<>> THEN <<>>
  ELSE Normalized(Sentences(txt), SentenceGlue, i.maxLength, TRUE)

sentenceSplitText(txt, i) ==
  IF Trim(txt) = <<>> THEN <<>>
  ELSE WithOverlap(normalizedSentences(txt, i), SentenceGlue, i)

SentenceSplitText ==
  /\ pc = "ready"
  /\ variant = "Sentence"
  /\ splits' = normalizedSentences(text, inst)
  /\ separator' = SentenceGlue
  /\ merge' = OverlapMerge(splits', SentenceGlue, inst)
  /\ result' = sentenceSplitText(text, inst)
  /\ pc' = "done"
  /\ UNCHANGED <<variant, fields, inst, text, stack, fresh, others>>

----------------------------------------------------------------------------
(* The caller splits the chunk it got once more, with the same splitter's  *)
(* splitOnSeparator.                                                       *)

Resplit ==
  /\ pc = "done"
  /\ variant = "Character"
  /\ Len(result) = 1
  /\ again' = splitOnSeparator(result[1], inst.separator, inst.keepSeparator)
  /\ pc' = "resplit"
  /\ UNCHANGED <<variant, fields, inst, text, splits, separator, merge, stack, result,
                 fresh, spans, job, documents, parked, loop>>

----------------------------------------------------------------------------
(* Every splitter, from a constructed instance and a text to the chunks     *)
(* splitText returns.                                                       *)

Idle ==
  /\ splits = <<>> /\ separator = <<>>
  /\ merge = MergeInit /\ stack = <<>> /\ result = <<>> /\ fresh = <<>>
  /\ NoOthers

InitRecReady ==
  /\ pc = "ready"
  /\ variant = "Recursive"
  /\ fields \in RecFields /\ text \in RecTexts
  /\ inst = Constructed(variant, fields)
  /\ Idle

InitToken ==
  /\ pc = "ready"
  /\ variant = "Token"
  /\ fields \in SizeOnlyFields /\ text \in TokenTexts
  /\ ~CtorThrows(variant, fields)
  /\ inst = Constructed(variant, fields)
  /\ Idle

InitUnits ==
  /\ pc = "ready"
  /\ \/ variant = "Sentence" /\ text \in SentTexts /\ fields \in UnitFields
     \/ variant = "Paragraph" /\ text \in ParaTexts /\ fields \in ParagraphFields
  /\ ~CtorThrows(variant, fields)
  /\ inst = Constructed(variant, fields)
  /\ Idle

Init == InitChar \/ InitRecReady \/ InitToken \/ InitUnits

Next ==
  \/ CharSplitText \/ MergeStep \/ MergeReturn \/ Resplit
  \/ RecSplitText \/ RecGood \/ RecRecurse \/ RecVerbatim \/ RecReturn
  \/ TokenSplitText
  \/ SentenceSplitText
  \/ ParagraphSplitText

Spec == Init /\ [][Next]_vars

----------------------------------------------------------------------------
(* TextSplitter.createDocuments, on a CharacterTextSplitter.               *)

\* text.slice(start, end), indices counted from 0: a negative index counts
\* from the end, both are clamped, and the slice is empty when they cross.
SliceIndex(s, k) == IF k < 0 THEN Max(Len(s) + k, 0) ELSE Min(k, Len(s))
Slice(s, start, end) == SubSeq(s, SliceIndex(s, start) + 1, SliceIndex(s, end))

IsLineBreak(c) == c = NL

\* (textSection.match(/\n/g) || []).length
CountLineBreaks(s) == Len(SelectSeq(s, IsLineBreak))

\* numberOfNewLines(text, start, end)
numberOfNewLines(s, start, end) == CountLineBreaks(Slice(s, start, end))

\* text.indexOf(sub, from), counted from 0; -1 when there is no occurrence.
IndexOf(s, sub, from) ==
  IF \E p \in from..Len(s) : StartsWithAt(s, sub, p + 1)
  THEN CHOOSE p \in from..Len(s) :
         /\ StartsWithAt(s, sub, p + 1)
         /\ \A q \in from..(p - 1) : ~StartsWithAt(s, sub, q + 1)
  ELSE -1

\* The default of chunkOverlapHeader, "(cont'd) ".
DefaultChunkOverlapHeader == <<"(", "c", "o", "n", "t", "'", "d", ")", " ">>

\* const { chunkHeader = "", chunkOverlapHeader = "(cont'd) ",
\*         appendChunkOverlapHeader = false } = chunkHeaderOptions
HeaderOptions(o) ==
  [chunkHeader |-> Get(o, "chunkHeader", <<>>),
   chunkOverlapHeader |-> Get(o, "chunkOverlapHeader", DefaultChunkOverlapHeader),
   appendChunkOverlapHeader |-> Get(o, "appendChunkOverlapHeader", FALSE)]

\* CharacterTextSplitter.splitText as one call: the locals of its
\* mergeSplits call when it returns.
charSplitText(txt, i) ==
  mergeSplits(splitOnSeparator(txt, i.separator, i.keepSeparator),
              CharJoinSeparator(i), i.chunkSize, i.chunkOverlap)

\* The pieces of the split before the empty ones are filtered out.
UnfilteredSplit(txt, sep, keepSeparator) ==
  IF sep # <<>> /\ sep # Undefined
  THEN (IF keepSeparator THEN SplitLookahead(txt, sep) ELSE SplitPlain(txt, sep))
  ELSE SplitChars(txt)

\* Where in the text (from 0) the pieces that are not empty start: `gap` is
\* the size of what the split removed between two pieces.
RECURSIVE PieceStarts(_, _, _)
PieceStarts(pieces, gap, at) ==
  IF pieces = <<>> THEN <<>>
  ELSE (IF Head(pieces) # <<>> THEN <<at>> ELSE <<>>)
         \o PieceStarts(Tail(pieces), gap, at + Len(Head(pieces)) + gap)

FragmentStarts(txt, i) ==
  PieceStarts(UnfilteredSplit(txt, i.separator, i.keepSeparator),
              IF i.keepSeparator \/ i.separator = <<>> THEN 0 ELSE Len(i.separator), 0)

\* Where in the text (from 0) chunk k of the call starts: at the first
\* fragment of its window, behind the whitespace the trim removed.
ChunkStart(txt, i, m, k) ==
  LET spl == splitOnSeparator(txt, i.separator, i.keepSeparator)
      joined == Join(SubSeq(spl, m.wins[k][1], m.wins[k][2]), CharJoinSeparator(i))
  IN FragmentStarts(txt, i)[m.wins[k][1]] + (Len(joined) - Len(TrimStart(joined)))

\* The window of chunk k shares a fragment with the window of chunk k - 1.
SharesFragment(m, k) == k > 1 /\ m.wins[k][1] <= m.wins[k - 1][2]

\* A JavaScript object is a function from its keys; a value that is not an
\* object is written [scalar |-> v].
IsObject(v) == "scalar" \notin DOMAIN v

\* _metadatas[i]: the caller's object when metadatas were given, else one of
\* the empty objects made for the call.
MetadataOf(j, i) == IF Len(j.metadatas) > 0 THEN j.metadatas[i] ELSE NoFields

HasObjectLoc(m) == "loc" \in DOMAIN m /\ IsObject(m.loc)

\* (faulty variant: loc is the caller's loc object itself, not a copy of it)
LocShared(m) ==
  [shared |-> HasObjectLoc(m), object |-> IF HasObjectLoc(m) THEN m.loc ELSE NoFields]

\* _metadatas[i].loc && typeof _metadatas[i].loc === "object"
\*   ? { ..._metadatas[i].loc } : {}
LocCopy(m) ==
  [shared |-> FALSE, object |-> IF HasObjectLoc(m) THEN Spread(NoFields, m.loc) ELSE NoFields]

\* loc.lines = { from, to }
WithLines(loc, from, to) == Spread(loc, [lines |-> [from |-> from, to |-> to]])

\* { ..._metadatas[i], loc }
MetadataWithLinesNumber(m, loc) == Spread(m, [loc |-> loc])

\* The caller's metadata objects after loc.lines was assigned: they change
\* only if loc is one of their own objects.
AfterLinesAssigned(j, loc, locAfter) ==
  IF loc.shared
  THEN [j.metadatas EXCEPT ![j.i] = Spread(@, [loc |-> locAfter])]
  ELSE j.metadatas

\* The locals of createDocuments before its loop over the texts; `given`
\* keeps the metadata objects as they were passed.
NewJob(texts, metadatas, o) ==
  [pc |-> "text", texts |-> texts, options |-> HeaderOptions(o),
   metadatas |-> metadatas, given |-> metadatas,
   via |-> "createDocuments", docs |-> <<>>,
   i |-> 1, k |-> 1, chunks |-> <<>>,
   lineCounterIndex |-> 1, prevChunk |-> Null, indexPrevChunk |-> -1]

\* documents.filter((doc) => doc.pageContent !== undefined)
HasPageContent(doc) == doc.pageContent # Undefined

\* splitDocuments(documents, chunkHeaderOptions): the call of createDocuments
\* it makes.
DocsSplitDocuments ==
  /\ job.pc = "docs"
  /\ LET selectedDocuments == SelectSeq(job.docs, HasPageContent)
         texts == [n \in 1..Len(selectedDocuments) |-> selectedDocuments[n].pageContent]
         metadatas == [n \in 1..Len(selectedDocuments) |-> selectedDocuments[n].metadata]
     IN job' = [NewJob(texts, metadatas, job.rawOptions) EXCEPT
                  !.via = "splitDocuments", !.docs = job.docs]
  /\ UNCHANGED <<pc, variant, fields, inst, text, splits, separator, merge, stack,
                 result, fresh, again, spans, documents, parked, loop>>

\* for (let i = 0; ...): the next text is taken and split.
DocsText ==
  /\ job.pc = "text"
  /\ job.i <= Len(job.texts)
  /\ text' = job.texts[job.i]
  /\ splits' = splitOnSeparator(text', inst.separator, inst.keepSeparator)
  /\ separator' = CharJoinSeparator(inst)
  /\ merge' = charSplitText(text', inst)
  /\ result' = merge'.docs
  /\ job' = [job EXCEPT !.pc = "chunk", !.k = 1, !.chunks = merge'.docs,
                        !.lineCounterIndex = 1, !.prevChunk = Null,
                        !.indexPrevChunk = -1]
  /\ UNCHANGED <<pc, variant, fields, inst, stack, fresh, again, spans, documents, parked, loop>>

\* lineCounterIndex when the chunk found at indexChunk is given its lines.
LineOfChunk(j, txt, indexChunk) ==
  LET indexEndPrevChunk == j.indexPrevChunk + lengthFunction(j.prevChunk)
  IN IF j.prevChunk = Null
     THEN j.lineCounterIndex + numberOfNewLines(txt, 0, indexChunk)
     ELSE IF indexEndPrevChunk < indexChunk
     THEN j.lineCounterIndex + numberOfNewLines(txt, indexEndPrevChunk, indexChunk)
     ELSE IF indexEndPrevChunk > indexChunk
     THEN j.lineCounterIndex - numberOfNewLines(txt, indexChunk, indexEndPrevChunk)
     ELSE j.lineCounterIndex

\* pageContent: chunkHeader, chunkOverlapHeader behind it when this is not
\* the first chunk of the text and appendChunkOverlapHeader is set, the chunk.
PageContent(j, chunk) ==
  j.options.chunkHeader
    \o (IF j.prevChunk # Null /\ j.options.appendChunkOverlapHeader
        THEN j.options.chunkOverlapHeader ELSE <<>>)
    \o chunk

\* for (const chunk of this.splitText(text)): one turn.  textIndex,
\* chunkIndex, chunk, start and shared record where the document comes from.
DocsChunk ==
  /\ job.pc = "chunk"
  /\ job.k <= Len(job.chunks)
  /\ LET chunk == job.chunks[job.k]
         indexChunk == IndexOf(text, chunk, job.indexPrevChunk + 1)
         line == LineOfChunk(job, text, indexChunk)
         newLinesCount == CountLineBreaks(chunk)
         loc == LocCopy(MetadataOf(job, job.i))
         locAfter == WithLines(loc.object, line, line + newLinesCount)
         metadatasAfter == AfterLinesAssigned(job, loc, locAfter)
         entryAfter == MetadataOf([job EXCEPT !.metadatas = metadatasAfter], job.i)
     IN /\ documents' = Append(documents,
              [pageContent |-> PageContent(job, chunk),
               metadata |-> MetadataWithLinesNumber(entryAfter, locAfter),
               from |-> line, to |-> line + newLinesCount,
               textIndex |-> job.i, chunkIndex |-> job.k, chunk |-> chunk,
               start |-> ChunkStart(text, inst, merge, job.k),
               shared |-> SharesFragment(merge, job.k)])
        /\ job' = [job EXCEPT !.k = @ + 1,
                              !.metadatas = metadatasAfter,
                              !.lineCounterIndex = line + newLinesCount,
                              !.prevChunk = chunk,
                              !.indexPrevChunk = indexChunk]
  /\ UNCHANGED <<pc, variant, fields, inst, text, splits, separator, merge, stack,
                 result, fresh, again, spans, parked, loop>>

\* The chunks of the text are used up: on to the next text.
DocsTextEnd ==
  /\ job.pc = "chunk"
  /\ job.k > Len(job.chunks)
  /\ job' = [job EXCEPT !.pc = "text", !.i = @ + 1]
  /\ UNCHANGED <<pc, variant, fields, inst, text, splits, separator, merge, stack,
                 result, fresh, again, spans, documents, parked, loop>>

\* return documents
DocsReturn ==
  /\ job.pc = "text"
  /\ job.i > Len(job.texts)
  /\ job' = [job EXCEPT !.pc = "done"]
  /\ pc' = "done"
  /\ UNCHANGED <<variant, fields, inst, text, splits, separator, merge, stack,
                 result, fresh, again, spans, documents, parked, loop>>

DocAlphabet == {"a", "-", NL}

DocSeparators == {<<NL>>, <<"-">>}

\* One text of any size, or two short ones.
DocTextLists ==
  {<<t>> : t \in StringsUpTo(DocAlphabet, MaxTextLen)}
    \cup {<<t, u>> : t, u \in StringsUpTo(DocAlphabet, 2)}

DocFields ==
  {Spread(Spread(sz, kf), [separator |-> sep]) :
     sz \in {f \in SizeOnlyFields : ~CtorThrows("Character", f)},
     kf \in {NoFields, [keepSeparator |-> TRUE]},
     sep \in DocSeparators}

\* chunkHeaderOptions: a header or none, the continuation header asked for or not.
DocOptions ==
  {Spread(h, a) : h \in {NoFields, [chunkHeader |-> <<"#">>]},
                  a \in {NoFields, [appendChunkOverlapHeader |-> TRUE]}}

\* Metadata objects a caller may pass: plain keys, a loc object with keys
\* and lines of its own, a loc that is not an object.
MetaPlain == [source |-> 1]
MetaWithLoc == [source |-> 1, loc |-> [page |-> 1, lines |-> [from |-> 7, to |-> 7]]]
MetaScalarLoc == [loc |-> [scalar |-> 1]]
MetaEntries == {MetaPlain, MetaWithLoc, MetaScalarLoc}

\* metadatas: none, or one object per text (for one short text any of the
\* objects above, for two texts two different objects).
DocMetadatas(texts) ==
  IF Len(texts) = 1
  THEN {<<>>} \cup (IF Len(texts[1]) <= 2 THEN {<<m>> : m \in MetaEntries} ELSE {})
  ELSE {<<>>, <<MetaWithLoc, MetaPlain>>}

\* Documents a caller may pass to splitDocuments.
DocLists ==
  {<<[pageContent |-> t, metadata |-> m]>> :
     t \in StringsUpTo(DocAlphabet, 2), m \in MetaEntries \cup {NoFields}}
    \cup {<<[pageContent |-> t, metadata |-> MetaWithLoc],
            [pageContent |-> u, metadata |-> NoFields]>> :
            t, u \in StringsUpTo(DocAlphabet, 1)}

InitDocs ==
  /\ pc = "ready"
  /\ variant = "Character"
  /\ fields \in DocFields
  /\ inst = Constructed(variant, fields)
  /\ text = <<>> /\ splits = <<>> /\ separator = <<>>
  /\ merge = MergeInit /\ stack = <<>> /\ result = <<>> /\ fresh = <<>>
  /\ again = <<>> /\ spans = <<>> /\ documents = <<>> /\ parked = NoCall
  /\ loop = NoLoop
  /\ \/ \E texts \in DocTextLists, o \in DocOptions :
          \E metadatas \in DocMetadatas(texts) : job = NewJob(texts, metadatas, o)
     \/ \E docs \in DocLists, o \in DocOptions :
          job = [pc |-> "docs", docs |-> docs, rawOptions |-> o]

NextDocs == DocsSplitDocuments \/ DocsText \/ DocsChunk \/ DocsTextEnd \/ DocsReturn

SpecDocs == InitDocs /\ [][NextDocs]_vars

----------------------------------------------------------------------------
(* Two splitText calls on one instance, interleaved step by step.  The     *)
(* variables pc .. fresh are the locals of the call that runs; the other   *)
(* call's locals wait in `parked`, and a switch exchanges the two.         *)

\* _splitText as one call, from the locals it has when its loop begins:
\* the chunks it returns, or that it threw.
RECURSIVE RecRun(_)
RecRun(fr) ==
  LET Threw == [threw |-> TRUE, chunks |-> <<>>]
  IN IF fr.k > Len(fr.splits)
     THEN (IF FlushThrows(fr) THEN Threw
           ELSE [threw |-> FALSE, chunks |-> FlushGood(fr).finalChunks])
     ELSE IF IsGood(fr.splits[fr.k], inst.chunkSize)
     THEN RecRun([fr EXCEPT !.goodSplits = Append(@, fr.splits[fr.k]), !.k = @ + 1])
     ELSE IF FlushThrows(fr) THEN Threw
     ELSE IF fr.hasNew
     THEN LET otherInfo == RecRun(Enter(fr.splits[fr.k], fr.newSeparators,
                                        inst.keepSeparator))
          IN IF otherInfo.threw THEN Threw
             ELSE RecRun([FlushGood(fr) EXCEPT !.finalChunks = @ \o otherInfo.chunks,
                                               !.k = @ + 1])
     ELSE RecRun([FlushGood(fr) EXCEPT !.finalChunks = Append(@, fr.splits[fr.k]),
                                       !.k = @ + 1])

\* The locals of the running call, as a record.
Locals ==
  [pc |-> pc, text |-> text, splits |-> splits, separator |-> separator,
   merge |-> merge, stack |-> stack, result |-> result, fresh |-> fresh]

\* The locals of a call that has not started.
NewCall(txt) ==
  [pc |-> "ready", text |-> txt, splits |-> <<>>, separator |-> <<>>,
   merge |-> MergeInit, stack |-> <<>>, result |-> <<>>, fresh |-> <<>>]

\* (faulty variant: docs, currentDoc and total are kept on the instance, so
\* the call that resumes finds those of the call that ran last)
ResumeSharingMerge(waiting, running) == [waiting EXCEPT !.merge = running.merge]

\* The locals a call finds when it resumes: its own.
Resume(waiting, running) == waiting

\* The other call takes its turn.
Switch ==
  /\ parked # NoCall
  /\ LET c == Resume(parked, Locals)
     IN /\ pc' = c.pc /\ text' = c.text /\ splits' = c.splits
        /\ separator' = c.separator /\ merge' = c.merge /\ stack' = c.stack
        /\ result' = c.result /\ fresh' = c.fresh
  /\ parked' = Locals
  /\ UNCHANGED <<variant, fields, inst, again, spans, job, documents, loop>>

ConcTexts == {<<"a", SP, "a">>, <<"a", "a", SP, "a">>, <<SP, "a">>, <<"a", "a", "a">>}

ConcFields ==
  {Spread(f, [separator |-> <<SP>>]) :
     f \in {g \in SplitFields : ~CtorThrows("Character", g)}}

InitConc ==
  /\ pc = "ready"
  /\ \/ variant = "Character" /\ fields \in ConcFields
     \/ variant = "Recursive" /\ fields \in RecFields
  /\ inst = Constructed(variant, fields)
  /\ text \in ConcTexts
  /\ splits = <<>> /\ separator = <<>>
  /\ merge = MergeInit /\ stack = <<>> /\ result = <<>> /\ fresh = <<>>
  /\ again = <<>> /\ spans = <<>> /\ job = NoJob /\ documents = <<>>
  /\ loop = NoLoop
  /\ \E t \in ConcTexts : parked = NewCall(t)

NextConc ==
  \/ Switch
  \/ CharSplitText \/ MergeStep \/ MergeReturn
  \/ RecSplitText \/ RecGood \/ RecRecurse \/ RecVerbatim \/ RecReturn

SpecConc == InitConc /\ [][NextConc]_vars

----------------------------------------------------------------------------
(* The while loops of TokenTextSplitter.splitText and of the hard split of  *)
(* SentenceSplitter and ParagraphSplitter, one iteration per step, for      *)
(* every configuration the constructor lets through.                        *)

\* The iterations of a loop the model follows before it stops looking.
MaxIterations == 6

LoopTexts == {<<"a">>, <<"a", "a">>, <<"a", SP, "a">>, <<"a", "a", "a">>}

\* Sizes of every sign that pass `chunkOverlap >= chunkSize`.
LoopTokenFields ==
  {f \in {[chunkSize |-> cs, chunkOverlap |-> co] : cs \in -1..2, co \in -2..1} :
     ~CtorThrows("Token", f)}

\* maxLength and overlap of every sign, and a maxLength of 0 beside a
\* chunkSize that passes on its own.
LoopUnitFields ==
  {f \in {[maxLength |-> ml, overlap |-> ov] : ml \in -1..2, ov \in -2..1} :
     ~CtorThrows("Sentence", f)}
    \cup {[maxLength |-> 0, chunkSize |-> 1]}

NewLoop(at, ids, units) ==
  [pc |-> at, inputIds |-> ids, startIdx |-> 0, units |-> units, k |-> 1,
   out |-> <<>>, currentChunk |-> <<>>, remainingText |-> <<>>, turns |-> 0]

\* splitText up to its loop: the tokens of the text, or its units; a blank
\* text is answered at once by the sentence and paragraph splitters.
LoopEnter ==
  /\ pc = "ready" /\ loop = NoLoop
  /\ IF variant = "Token"
     THEN /\ loop' = NewLoop("token", Encode(text), <<>>)
          /\ pc' = "looping" /\ UNCHANGED result
     ELSE IF Trim(text) = <<>>
     THEN pc' = "done" /\ result' = <<>> /\ UNCHANGED loop
     ELSE /\ loop' = NewLoop("units", <<>>,
                             IF variant = "Paragraph"
                             THEN Paragraphs(text, inst.paragraphPattern)
                             ELSE Sentences(text))
          /\ pc' = "looping" /\ UNCHANGED result
  /\ UNCHANGED <<variant, fields, inst, text, splits, separator, merge, stack, fresh,
                 again, spans, job, documents, parked>>

\* while (startIdx < inputIds.length) { ... }: one iteration.
TokenIter ==
  /\ pc = "looping" /\ loop.pc = "token"
  /\ loop.startIdx < Len(loop.inputIds)
  /\ loop.turns < MaxIterations
  /\ LET from == IF loop.startIdx > 0 THEN loop.startIdx - inst.chunkOverlap
                 ELSE loop.startIdx
         endIdx == Min(from + inst.chunkSize, Len(loop.inputIds))
     IN loop' = [loop EXCEPT !.out = Append(@, Decode(Slice(loop.inputIds, from, endIdx))),
                             !.startIdx = endIdx,
                             !.turns = @ + 1]
  /\ UNCHANGED <<pc, variant, fields, inst, text, splits, separator, merge, stack,
                 result, fresh, again, spans, job, documents, parked>>

\* The loop condition fails: return splits.
TokenExit ==
  /\ pc = "looping" /\ loop.pc = "token"
  /\ loop.startIdx >= Len(loop.inputIds)
  /\ result' = loop.out
  /\ pc' = "done"
  /\ UNCHANGED <<variant, fields, inst, text, splits, separator, merge, stack,
                 fresh, others>>

\* for (const unit of units): a unit longer than maxLength enters the hard
\* split, any other takes the turn of the loop in one step.
UnitNext ==
  /\ pc = "looping" /\ loop.pc = "units"
  /\ loop.k <= Len(loop.units)
  /\ LET unit == loop.units[loop.k]
         glue == IF variant = "Paragraph" THEN ParagraphGlue ELSE SentenceGlue
     IN IF lengthFunction(unit) > inst.maxLength
        THEN loop' = [loop EXCEPT !.pc = "hard", !.remainingText = unit]
        ELSE LET acc == UnitStep([out |-> loop.out, currentChunk |-> loop.currentChunk],
                                 unit, glue, inst.maxLength, variant = "Sentence")
             IN loop' = [loop EXCEPT !.out = acc.out,
                                     !.currentChunk = acc.currentChunk,
                                     !.k = @ + 1]
  /\ UNCHANGED <<pc, variant, fields, inst, text, splits, separator, merge, stack,
                 result, fresh, again, spans, job, documents, parked>>

\* while (remainingText.length > 0) { ... }: one iteration.
HardIter ==
  /\ pc = "looping" /\ loop.pc = "hard"
  /\ Len(loop.remainingText) > 0
  /\ loop.turns < MaxIterations
  /\ LET chunk == Slice(loop.remainingText, 0, inst.maxLength)
         lastSpaceIndex == LastIndexOfSpace(chunk)
         splitIndex == IF lastSpaceIndex > 0 THEN lastSpaceIndex ELSE inst.maxLength
     IN loop' = [loop EXCEPT
                   !.out = Append(@, Slice(loop.remainingText, 0, splitIndex)),
                   !.remainingText = Trim(Slice(loop.remainingText, splitIndex,
                                                Len(loop.remainingText))),
                   !.turns = @ + 1]
  /\ UNCHANGED <<pc, variant, fields, inst, text, splits, separator, merge, stack,
                 result, fresh, again, spans, job, documents, parked>>

\* The hard split is over: currentChunk = '' and on to the next unit.
HardExit ==
  /\ pc = "looping" /\ loop.pc = "hard"
  /\ Len(loop.remainingText) = 0
  /\ loop' = [loop EXCEPT !.pc = "units", !.currentChunk = <<>>, !.k = @ + 1]
  /\ UNCHANGED <<pc, variant, fields, inst, text, splits, separator, merge, stack,
                 result, fresh, again, spans, job, documents, parked>>

\* The units are used up: what is left is pushed, overlap applied, return.
UnitsExit ==
  /\ pc = "looping" /\ loop.pc = "units"
  /\ loop.k > Len(loop.units)
  /\ LET normalized == PushCurrent([out |-> loop.out, currentChunk |-> loop.currentChunk],
                                   variant = "Sentence")
         glue == IF variant = "Paragraph" THEN ParagraphGlue ELSE SentenceGlue
     IN /\ splits' = normalized
        /\ result' = WithOverlap(normalized, glue, inst)
  /\ pc' = "done"
  /\ UNCHANGED <<variant, fields, inst, text, separator, merge, stack, fresh, others>>

InitLoops ==
  /\ pc = "ready"
  /\ \/ variant = "Token" /\ fields \in LoopTokenFields
     \/ variant \in {"Sentence", "Paragraph"} /\ fields \in LoopUnitFields
  /\ ~CtorThrows(variant, fields)
  /\ inst = Constructed(variant, fields)
  /\ text \in LoopTexts
  /\ Idle

NextLoops ==
  \/ LoopEnter \/ TokenIter \/ TokenExit
  \/ UnitNext \/ HardIter \/ HardExit \/ UnitsExit

SpecLoops == InitLoops /\ [][NextLoops]_vars

----------------------------------------------------------------------------
(* Properties of construction.                                             *)

\* The sizes the configuration asks for, as the contract words them: the
\* sentence and paragraph splitters take chunkSize from maxLength and
\* chunkOverlap from overlap unless chunkSize or chunkOverlap is given.
AskedChunkSize ==
  IF "chunkSize" \in DOMAIN fields THEN fields["chunkSize"]
  ELSE IF variant \in {"Sentence", "Paragraph"} /\ "maxLength" \in DOMAIN fields
       THEN fields["maxLength"]
  ELSE DefaultChunkSize

AskedChunkOverlap ==
  IF "chunkOverlap" \in DOMAIN fields THEN fields["chunkOverlap"]
  ELSE IF variant \in {"Sentence", "Paragraph"}
       THEN (IF "overlap" \in DOMAIN fields THEN fields["overlap"] ELSE 0)
  ELSE DefaultChunkOverlap

\* C1: construction throws exactly when chunkOverlap >= chunkSize; a throw
\* leaves no instance, and an accepted configuration is stored as asked.
CtorFailsIffOverlapTooLarge ==
  pc \in {"ready", "threw"} =>
    /\ (pc = "threw") <=> (AskedChunkOverlap >= AskedChunkSize)
    /\ pc = "threw" => inst = NoInstance
    /\ pc = "ready" => /\ inst.chunkSize = AskedChunkSize
                       /\ inst.chunkOverlap = AskedChunkOverlap

\* C1 witness: a paragraph splitter whose overlap equals its maxLength was rejected.
CtorRejectedEqualOverlap ==
  /\ pc = "threw"
  /\ variant = "Paragraph"
  /\ DOMAIN fields = {"maxLength", "overlap"}
  /\ fields["overlap"] = fields["maxLength"]

----------------------------------------------------------------------------
(* Properties of mergeSplits.                                              *)

Range(s) == {s[i] : i \in 1..Len(s)}

\* The sum of lengthFunction over splits[lo..hi].
RECURSIVE SumLen(_, _, _)
SumLen(spl, lo, hi) ==
  IF lo > hi THEN 0 ELSE lengthFunction(spl[lo]) + SumLen(spl, lo + 1, hi)

\* The text a window of the input produces.
WindowText(w) == Trim(Join(SubSeq(splits, w[1], w[2]), separator))

\* C3: every chunk is within chunkSize or was diagnosed by a warning.
SoftBound ==
  \A i \in 1..Len(merge.docs) :
    lengthFunction(merge.docs[i]) <= inst.chunkSize \/ merge.warned[i]

\* C6: no chunk is empty after trimming, and exactly the flushed windows whose
\* joined and trimmed text is not empty became chunks.
NoEmptyChunk ==
  /\ \A i \in 1..Len(merge.docs) : Trim(merge.docs[i]) # <<>>
  /\ Len(merge.docs) =
       Cardinality({k \in 1..Len(merge.flushes) : WindowText(merge.flushes[k]) # <<>>})

\* C6 witness: a blank window was flushed inside the loop, another at the end,
\* and a chunk was emitted between them.
BlankWindowsDropped ==
  /\ pc = "done"
  /\ Len(merge.flushes) >= 3
  /\ WindowText(merge.flushes[1]) = <<>>
  /\ WindowText(merge.flushes[Len(merge.flushes)]) = <<>>
  /\ Len(result) >= 1

Oversize(k) == lengthFunction(splits[k]) > inst.chunkSize

\* C7 as stated: every oversized fragment is emitted, and the chunk it is
\* emitted in is that fragment alone.
OversizeAlone ==
  pc = "done" =>
    \A k \in 1..Len(splits) :
      Oversize(k) =>
        /\ \E i \in 1..Len(merge.wins) : merge.wins[i][1] <= k /\ k <= merge.wins[i][2]
        /\ \A i \in 1..Len(merge.wins) :
             (merge.wins[i][1] <= k /\ k <= merge.wins[i][2]) => result[i] = Trim(splits[k])

\* C7 amended: an oversized fragment ends the one window it is flushed in; what
\* precedes it there is overlap retained from the flush before, of total size
\* at most chunkOverlap; the window is emitted unless it trims to empty.
OversizePassedThrough ==
  pc = "done" =>
    \A k \in 1..Len(splits) :
      Oversize(k) =>
        \E lo \in 1..k :
          /\ <<lo, k>> \in Range(merge.flushes)
          /\ SumLen(splits, lo, k - 1) <= inst.chunkOverlap
          /\ \A w \in Range(merge.flushes) : (w[1] <= k /\ k <= w[2]) => w = <<lo, k>>
          /\ WindowText(<<lo, k>>) # <<>> =>
               \E i \in 1..Len(merge.wins) :
                 merge.wins[i] = <<lo, k>> /\ result[i] = WindowText(<<lo, k>>)

\* C7 witness: an oversized fragment was emitted behind retained overlap.
OversizeBehindOverlap ==
  /\ pc = "done"
  /\ \E i \in 1..Len(merge.wins) :
       /\ merge.wins[i][1] < merge.wins[i][2]
       /\ Oversize(merge.wins[i][2])
       /\ i > 1

\* C9: every chunk is the trimmed join of a contiguous window of the input;
\* window starts never decrease and window ends strictly increase.
ChunksAreOrderedWindows ==
  /\ Len(merge.wins) = Len(merge.docs)
  /\ \A i \in 1..Len(merge.docs) :
       /\ 1 <= merge.wins[i][1]
       /\ merge.wins[i][1] <= merge.wins[i][2]
       /\ merge.wins[i][2] <= Len(splits)
       /\ merge.docs[i] = WindowText(merge.wins[i])
  /\ \A i \in 1..(Len(merge.docs) - 1) :
       /\ merge.wins[i][1] <= merge.wins[i + 1][1]
       /\ merge.wins[i][2] < merge.wins[i + 1][2]

\* C9 witness: three chunks came out, the second sharing a fragment with the first.
OverlappingWindowsEmitted ==
  /\ pc = "done"
  /\ Len(result) = 3
  /\ merge.wins[2][1] <= merge.wins[1][2]

----------------------------------------------------------------------------
(* Properties of CharacterTextSplitter.                                    *)

UsageRun == pc = "done" /\ fields = UsageFields /\ text = UsageText

\* C8 as stated: the example of usage.ts returns three chunks, one per line.
UsageGivesThreeLines == UsageRun => result = <<UsageLine1, UsageLine2, UsageLine3>>

\* C8 amended: the three lines total 59 characters with their separators, so
\* they are merged into one chunk, the whole text.
UsageGivesOneChunk == UsageRun => result = <<UsageText>>

\* C8 witness: the example has run, from three fragments.
UsageExampleRan == UsageRun /\ Len(splits) = 3

----------------------------------------------------------------------------
(* Properties of the recursive resolver.                                   *)

\* Every call made by a frame received a strictly shorter separator list, and
\* no frame that selected the empty string has made a call.
ShorterListsDown ==
  \A j \in 2..Len(stack) :
    /\ Len(stack[j].separators) < Len(stack[j - 1].separators)
    /\ stack[j - 1].separator # <<>>

\* A frame that selected the empty string has no fallback list.
EmptyIsBase ==
  \A j \in 1..Len(stack) : stack[j].separator = <<>> => ~stack[j].hasNew

\* A bound on the steps a call of _splitText with n separators can take on a
\* text of at most MaxTextLen characters: one per fragment, one to return, and
\* the steps of the call a fragment may cause.
RECURSIVE CallCost(_)
CallCost(n) ==
  IF n = 0 THEN MaxTextLen + 1
  ELSE MaxTextLen * (1 + CallCost(n - 1)) + 1

FragmentCost(n) == IF n = 0 THEN 1 ELSE 1 + CallCost(n - 1)

FrameCost(fr) == (Len(fr.splits) - fr.k + 1) * FragmentCost(Len(fr.separators)) + 1

RECURSIVE StackCost(_)
StackCost(st) == IF st = <<>> THEN 0 ELSE FrameCost(Head(st)) + StackCost(Tail(st))

\* The steps still ahead of the caller, at most.
StepsLeft ==
  CASE pc = "new" -> CallCost(Len(DefaultSeparators)) + 2
    [] pc = "ready" -> CallCost(Len(inst.separators)) + 1
    [] pc = "running" -> StackCost(stack)
    [] OTHER -> 0

\* The guards of the steps; what follows a guard in its action assigns the
\* next state and can always be done.
SomeStepEnabled ==
  \/ CanRecConstruct \/ CanRecSplitText
  \/ (Len(stack) > 0 /\ (CanRecGood \/ CanRecRecurse \/ CanRecVerbatim \/ CanRecReturn))

\* C10: the recursion descends along strictly shorter separator lists, never
\* past the empty string, and every call of splitText comes to an end: each
\* step lowers a natural number, and only a finished call has no next step.
RecursionTerminates ==
  /\ [](ShorterListsDown /\ EmptyIsBase /\ Len(stack) <= Len(inst.separators) + 1)
  /\ [](StepsLeft >= 0)
  /\ [][StepsLeft' < StepsLeft]_vars
  /\ [](pc \notin {"done", "threw"} => SomeStepEnabled)

\* C10 witness: a call at the third level, which selected the empty string,
\* has finished its loop.
DeepRecursionSeen ==
  /\ pc = "running"
  /\ Len(stack) >= 3
  /\ Top.separator = <<>>
  /\ Top.k > Len(Top.splits)

----------------------------------------------------------------------------
(* Properties of splitText over all the splitters (under Spec).            *)

Blank(s) == Trim(s) = <<>>

\* C2 as stated: when splitText has returned, no chunk is empty or blank, and
\* a text that is empty or blank has given no chunk at all.
BlankInputGivesNothing ==
  pc = "done" =>
    /\ \A i \in 1..Len(result) : ~Blank(result[i])
    /\ Blank(text) => result = <<>>

RECURSIVE Concat(_)
Concat(ss) == IF ss = <<>> THEN <<>> ELSE Head(ss) \o Concat(Tail(ss))

NotWhitespace(c) == ~IsWhitespace(c)
Squeeze(s) == SelectSeq(s, NotWhitespace)

\* The text without the occurrences of the separator.
DeleteAll(s, sep) == IF sep = <<>> THEN s ELSE Concat(SplitPlain(s, sep))

\* The separator a returned call of the fixed-separator splitter removed:
\* none when it keeps separators.
Dropped == IF inst.keepSeparator THEN <<>> ELSE inst.separator

Returned(v) == pc = "done" /\ variant = v

IsSubstring(sub, s) == \E at \in 1..(Len(s) + 1) : StartsWithAt(s, sub, at)

\* The units (paragraphs or sentences) splitText found in the text.
UnitsFound ==
  IF variant = "Paragraph" THEN Paragraphs(text, inst.paragraphPattern)
  ELSE Sentences(text)

\* Whether the units can be found inside the chunks in order, from chunk
\* `from` on; a unit longer than maxLength is cut and is not looked for.
RECURSIVE FoundInOrder(_, _, _, _)
FoundInOrder(units, chunks, from, maxLength) ==
  IF units = <<>> THEN TRUE
  ELSE IF Len(Head(units)) > maxLength
  THEN FoundInOrder(Tail(units), chunks, from, maxLength)
  ELSE LET at == {j \in from..Len(chunks) : IsSubstring(Head(units), chunks[j])}
       IN /\ at # {}
          /\ FoundInOrder(Tail(units), chunks,
                          CHOOSE j \in at : \A k \in at : j <= k, maxLength)

\* C5 as stated: every paragraph or sentence no longer than maxLength is
\* inside some returned chunk, in source order.
NoUnitLost ==
  (pc = "done" /\ variant \in {"Paragraph", "Sentence"}) =>
    FoundInOrder(UnitsFound, result, 1, inst.maxLength)

----------------------------------------------------------------------------
(* Properties of the paragraph and sentence splitters (under Spec).        *)

ParagraphsFound == Paragraphs(text, inst.paragraphPattern)

\* A blank line: two line breaks with nothing but whitespace between them.
HasBlankLine(s) ==
  \E a, b \in 1..Len(s) :
    /\ a < b /\ s[a] = NL /\ s[b] = NL
    /\ \A k \in (a + 1)..(b - 1) : IsWhitespace(s[k])

\* Every paragraph fits within maxLength, no two neighbours fit together.
EachFitsNoneJoins(ps, maxLength) ==
  /\ \A i \in 1..Len(ps) : Len(ps[i]) <= maxLength
  /\ \A i \in 1..(Len(ps) - 1) :
       Len(ps[i]) + Len(ParagraphGlue) + Len(ps[i + 1]) > maxLength

\* C11 as stated: with the default pattern a text without a blank line is one
\* paragraph at most; and when every paragraph fits within maxLength but no
\* two neighbours fit together, the chunks are the trimmed paragraphs, one
\* each, in order.
OneChunkPerParagraph ==
  Returned("Paragraph") =>
    /\ (inst.paragraphPattern = DefaultParagraphPattern /\ ~HasBlankLine(text))
         => Len(ParagraphsFound) <= 1
    /\ EachFitsNoneJoins(ParagraphsFound, inst.maxLength)
         => result = ParagraphsFound

\* C12 as stated: no chunk of the paragraph or sentence splitter is longer
\* than maxLength.
ChunksWithinMaxLength ==
  (pc = "done" /\ variant \in {"Paragraph", "Sentence"}) =>
    \A i \in 1..Len(result) : Len(result[i]) <= inst.maxLength

\* s.slice(-k)
LastChars(s, k) == SubSeq(s, Max(1, Len(s) - k + 1), Len(s))

\* The paragraph or sentence splitter returned two chunks or more, from
\* mergeSplits.
OverlapRun ==
  /\ pc = "done" /\ variant \in {"Paragraph", "Sentence"}
  /\ inst.chunkOverlap > 0
  /\ Len(result) > 1

StopBeforeCapital(s, p) ==
  /\ IsPunct(s[p])
  /\ p + 1 <= Len(s) /\ IsWhitespace(s[p + 1])
  /\ WhitespaceRunEnd(s, p + 1) + 1 <= Len(s)
  /\ IsUpper(s[WhitespaceRunEnd(s, p + 1) + 1])

\* The character at position p ends an abbreviation of the set.
EndsAbbreviation(s, p) ==
  \E abbr \in Abbreviations :
    /\ p - Len(abbr) + 1 >= 1
    /\ SubSeq(s, p - Len(abbr) + 1, p) = abbr
    /\ WordBoundaryBefore(s, p - Len(abbr) + 1)

\* A text, trimmed and singly spaced, in which an abbreviation is followed by
\* a capital and every stop before a capital ends an abbreviation.
OnlyAbbreviationStops(s) ==
  /\ s # <<>> /\ ProcessedText(s) = s
  /\ \E p \in 1..Len(s) : StopBeforeCapital(s, p)
  /\ \A p \in 1..Len(s) : StopBeforeCapital(s, p) => EndsAbbreviation(s, p)

\* C14 as stated: a text within maxLength whose only stops before a capital
\* end abbreviations is returned as one chunk, equal to the text.
AbbreviationsNotSplit ==
  (Returned("Sentence") /\ Len(text) <= inst.maxLength /\ OnlyAbbreviationStops(text))
    => result = <<text>>

----------------------------------------------------------------------------
(* Properties of splitting a merged chunk again (under Spec).              *)

\* The fixed-separator splitter drops separators and its chunkSize is at
\* least the size of the text.
WideRun ==
  /\ variant = "Character" /\ pc \in {"done", "resplit"}
  /\ ~inst.keepSeparator
  /\ inst.chunkSize >= Len(text)

EdgesClean == Trim(Join(splits, separator)) = Join(splits, separator)

----------------------------------------------------------------------------
(* Properties of the token windows (under Spec).                           *)

\* C16: over n tokens, with stride chunkSize - chunkOverlap, slice k (from 0)
\* is [k * stride, min(k * stride + chunkSize, n)) and its decoding is chunk
\* k; no slice starts below 0, is empty or holds more than chunkSize tokens;
\* consecutive slices share exactly chunkOverlap tokens; every position is in
\* some slice; only the last slice ends at n, and no tokens give no slice.
TokenWindowsExact ==
  Returned("Token") =>
    LET inputIds == Encode(text)
        n == Len(inputIds)
        stride == inst.chunkSize - inst.chunkOverlap
    IN /\ Len(result) = Len(spans)
       /\ \A k \in 1..Len(spans) :
            /\ spans[k] = <<(k - 1) * stride, Min((k - 1) * stride + inst.chunkSize, n)>>
            /\ spans[k][1] >= 0
            /\ spans[k][2] - spans[k][1] \in 1..inst.chunkSize
            /\ result[k] = Decode(SubSeq(inputIds, spans[k][1] + 1, spans[k][2]))
            /\ (spans[k][2] = n) <=> (k = Len(spans))
       /\ \A k \in 1..(Len(spans) - 1) : spans[k][2] - spans[k + 1][1] = inst.chunkOverlap
       /\ \A p \in 0..(n - 1) : \E k \in 1..Len(spans) : spans[k][1] <= p /\ p < spans[k][2]
       /\ (n = 0) <=> (spans = <<>>)

\* C16 witness: two slices or more that overlap, the last one cut short by
\* the end of the tokens.
LastWindowCutShort ==
  /\ Returned("Token")
  /\ inst.chunkOverlap > 0
  /\ Len(spans) >= 2
  /\ spans[Len(spans)][2] - spans[Len(spans)][1] < inst.chunkSize

----------------------------------------------------------------------------
(* Properties of createDocuments (under SpecDocs).                         *)

\* C17 as stated: the first line of a document is 1 plus the number of line
\* breaks of its text in front of the place where its chunk starts, and its
\* last line is the first plus the number of line breaks inside the chunk.
LinesCountedFromText ==
  \A n \in 1..Len(documents) :
    LET d == documents[n]
    IN /\ d.from = 1 + CountLineBreaks(SubSeq(job.texts[d.textIndex], 1, d.start))
       /\ d.to = d.from + CountLineBreaks(d.chunk)

\* C18 as stated: the content of a document is chunkHeader and the chunk,
\* with chunkOverlapHeader between them exactly when appendChunkOverlapHeader
\* is set and the chunk shares a fragment with the chunk before it in the
\* same text.
OverlapHeaderOnlyOnOverlap ==
  \A n \in 1..Len(documents) :
    LET d == documents[n]
    IN d.pageContent =
         job.options.chunkHeader
           \o (IF job.options.appendChunkOverlapHeader /\ d.shared
               THEN job.options.chunkOverlapHeader ELSE <<>>)
           \o d.chunk

----------------------------------------------------------------------------
(* Properties of interleaved calls (under SpecConc).                       *)

\* A call that is over ended as it ends when it runs alone.
AsAlone(c) ==
  IF variant = "Character"
  THEN c.pc = "done" /\ c.result = charSplitText(c.text, inst).docs
  ELSE LET alone == RecRun(Enter(c.text, inst.separators, inst.keepSeparator))
       IN IF alone.threw THEN c.pc = "threw"
          ELSE c.pc = "done" /\ c.result = alone.chunks

Over(c) == c.pc \in {"done", "threw"}

\* C19: whatever the interleaving of two splitText calls on one instance,
\* each call that is over returned the chunks it returns when run alone (or
\* threw as it does alone), and the instance is as it was constructed.
InterleavingHarmless ==
  /\ inst = Constructed(variant, fields)
  /\ Over(Locals) => AsAlone(Locals)
  /\ Over(parked) => AsAlone(parked)

\* C19 witness: a call on one text is over, with two chunks or more, while
\* the other call, on another text, is in the middle of its own merge with
\* fragments in its window.
CallOverInsideAnother ==
  /\ Over(Locals) /\ Len(result) >= 2
  /\ text # parked.text
  /\ \/ parked.pc = "merging" /\ parked.merge.currentDoc # <<>>
     \/ parked.pc = "running" /\ parked.stack # <<>>
                              /\ parked.stack[Len(parked.stack)].goodSplits # <<>>

----------------------------------------------------------------------------
(* Properties of the overlap carry-over (under SpecMerge).                 *)

\* The iteration that just ended flushed a window before it appended.
JustFlushed ==
  /\ pc = "merging" /\ ~merge.threw
  /\ merge.flushes # <<>>
  /\ merge.flushes[Len(merge.flushes)][2] = merge.seen - 1

\* After a flush the window is what the flush kept, of total size at most
\* chunkOverlap, followed by the incoming fragment; the running total is the
\* sum of the sizes in the window.
CarriedThenAppended ==
  /\ ~merge.threw =>
       /\ merge.currentDoc = SubSeq(splits, merge.first, merge.seen)
       /\ merge.total = SumLen(splits, merge.first, merge.seen)
  /\ JustFlushed =>
       /\ merge.first <= merge.seen
       /\ merge.total - lengthFunction(splits[merge.seen]) <= inst.chunkOverlap

\* The fragments the windows of chunks i and i + 1 share.
SharedWithNext(i) == merge.wins[i + 1][1] .. merge.wins[i][2]

\* The fragments two consecutive chunks share have total size <= chunkOverlap.
SharedWithinOverlap ==
  \A i \in 1..(Len(merge.wins) - 1) :
    SumLen(splits, merge.wins[i + 1][1], merge.wins[i][2]) <= inst.chunkOverlap

\* C20 as stated: a flush shrinks the window from its front until the running
\* total is at or below chunkOverlap and the incoming fragment is appended;
\* consecutive chunks share fragments of total size <= chunkOverlap, and
\* with chunkOverlap = 0 they share no fragment.
NothingSharedWithoutOverlap ==
  /\ CarriedThenAppended
  /\ SharedWithinOverlap
  /\ inst.chunkOverlap = 0 =>
       \A i \in 1..(Len(merge.wins) - 1) : SharedWithNext(i) = {}

\* C20 amended: the same, except that with chunkOverlap = 0 the fragments
\* shared are those of size 0 the shrinking left in the window: no fragment
\* of positive size is shared.
NothingButEmptyShared ==
  /\ CarriedThenAppended
  /\ SharedWithinOverlap
  /\ inst.chunkOverlap = 0 =>
       \A i \in 1..(Len(merge.wins) - 1) :
         \A k \in SharedWithNext(i) : lengthFunction(splits[k]) = 0

\* C20 witness: with chunkOverlap = 0 a flush removed the front of its window
\* and left an empty fragment, which the next chunk's window starts with.
EmptyFragmentCarried ==
  /\ pc = "done"
  /\ inst.chunkOverlap = 0
  /\ \E i \in 1..(Len(merge.wins) - 1) :
       /\ merge.wins[i][1] < merge.wins[i + 1][1]
       /\ SharedWithNext(i) # {}
       /\ merge.docs[i + 1] # merge.docs[i]

----------------------------------------------------------------------------
(* Properties of the recursive resolver (under SpecRec).                   *)

Frames == {stack[d] : d \in 1..Len(stack)}

\* Separator i of the list is reached by the scan: none before it is the
\* empty string or occurs in the text.
Reached(fr, i) ==
  \A j \in 1..(i - 1) :
    fr.separators[j] # <<>> /\ ~IsSubstring(fr.separators[j], fr.text)

\* C21: in every call of _splitText with a non-empty list, the empty string
\* is selected as soon as the scan reaches it; else the first separator that
\* occurs in the text is selected and the separators after it are the
\* fallback list; else the last separator is selected with no fallback list.
SeparatorSelection ==
  \A fr \in Frames :
    fr.separators # <<>> =>
      LET n == Len(fr.separators)
          hits == {i \in 1..n : Reached(fr, i) /\
                     (fr.separators[i] = <<>> \/ IsSubstring(fr.separators[i], fr.text))}
      IN IF hits = {}
         THEN fr.separator = fr.separators[n] /\ ~fr.hasNew
         ELSE LET i == CHOOSE h \in hits : TRUE
              IN /\ fr.separator = fr.separators[i]
                 /\ IF fr.separators[i] = <<>> THEN ~fr.hasNew
                    ELSE /\ fr.hasNew
                         /\ fr.newSeparators = SubSeq(fr.separators, i + 1, n)

\* C21 witness: a call selected a separator found in its text, and the call
\* it made on a fragment with the separators after it found none of them,
\* none of them empty, and took the last.
LastSeparatorTakenInRecursion ==
  /\ pc = "running" /\ Len(stack) >= 2
  /\ stack[1].hasNew /\ Top.separators = stack[1].newSeparators
  /\ LET fr == Top
     IN /\ fr.separators # <<>>
        /\ \A i \in 1..Len(fr.separators) :
             fr.separators[i] # <<>> /\ ~IsSubstring(fr.separators[i], fr.text)
        /\ fr.separator = fr.separators[Len(fr.separators)]

----------------------------------------------------------------------------
(* Properties of splitOnSeparator (under Spec).                            *)

\* What splitOnSeparator(txt, sep) returned as frags is as the separator
\* disposition requires.
Disposed(txt, sep, frags) ==
  /\ \A i \in 1..Len(frags) : frags[i] # <<>>
  /\ (inst.keepSeparator /\ sep # <<>>) =>
       /\ Concat(frags) = txt
       /\ \A i \in 2..Len(frags) : StartsWithAt(frags[i], sep, 1)
  /\ (~inst.keepSeparator /\ sep # <<>>) =>
       \A i \in 1..Len(frags) : ~IsSubstring(sep, frags[i])

\* C22: with keepSeparator true and a non-empty separator the fragments of
\* splitOnSeparator are non-empty, concatenate to the text, and each one
\* after the first begins with a full occurrence of the separator; with
\* keepSeparator false no fragment contains the separator; no fragment is
\* empty.
SeparatorDisposition ==
  /\ (variant = "Character" /\ pc \in {"merging", "done", "resplit"}) =>
       Disposed(text, inst.separator, splits)
  /\ \A fr \in Frames :
       fr.separator # Undefined => Disposed(fr.text, fr.separator, fr.splits)

\* A finer separator remains after the one the call selected.
FinerRemains(fr) == fr.hasNew /\ fr.newSeparators # <<>>

\* What one step of the loop of _splitText does with the fragment s, and what
\* a return to the calling _splitText does, as the recursive fallback
\* describes them.
FallbackStep ==
  /\ (pc = "running" /\ Top.k <= Len(Top.splits)) =>
       LET s == Top.splits[Top.k]
           flushed == Top.finalChunks \o
                        (IF Top.goodSplits = <<>> THEN <<>> ELSE GoodMerged(Top).docs)
       IN IF lengthFunction(s) < inst.chunkSize
          THEN /\ pc' = "running" /\ Len(stack') = Len(stack)
               /\ stack'[Len(stack)].goodSplits = Append(Top.goodSplits, s)
               /\ stack'[Len(stack)].finalChunks = Top.finalChunks
          ELSE IF FinerRemains(Top)
          THEN /\ pc' = "running" /\ Len(stack') = Len(stack) + 1
               /\ stack'[Len(stack)].goodSplits = <<>>
               /\ stack'[Len(stack)].finalChunks = flushed
               /\ stack'[Len(stack) + 1].text = s
               /\ stack'[Len(stack) + 1].separators = Top.newSeparators
          ELSE /\ pc' = "running" /\ Len(stack') = Len(stack)
               /\ stack'[Len(stack)].goodSplits = <<>>
               /\ stack'[Len(stack)].finalChunks = Append(flushed, s)
  /\ (pc = "running" /\ Top.k > Len(Top.splits) /\ Len(stack) >= 2 /\ pc' = "running") =>
       /\ Len(stack') = Len(stack) - 1
       /\ stack'[Len(stack) - 1].finalChunks =
            stack[Len(stack) - 1].finalChunks \o FlushGood(Top).finalChunks

\* C23: a fragment below chunkSize joins the good run; a fragment at or above
\* chunkSize first flushes the good run through mergeSplits, and is resolved
\* by a recursive call if and only if a finer separator remains after the
\* selected one, else emitted verbatim as its own chunk; what a recursive
\* call returns is spliced in where its fragment stood.
RecursiveFallback == [][FallbackStep]_vars

----------------------------------------------------------------------------
(* Properties of the hard split (under Spec).                              *)

\* The 0-based index of the last whitespace character of s, -1 if none.
RECURSIVE LastWhitespaceIndex(_)
LastWhitespaceIndex(s) ==
  IF s = <<>> THEN -1
  ELSE IF IsWhitespace(s[Len(s)]) THEN Len(s) - 1
  ELSE LastWhitespaceIndex(SubSeq(s, 1, Len(s) - 1))

\* The pieces of an over-long unit as the hard split is described: what
\* fits within maxLength is one piece; what does not is cut at the last
\* whitespace of its first maxLength characters, at maxLength when it has none.
RECURSIVE CutAsDescribed(_, _)
CutAsDescribed(rest, maxLength) ==
  IF rest = <<>> THEN <<>>
  ELSE IF Len(rest) <= maxLength THEN <<rest>>
  ELSE LET at == LastWhitespaceIndex(SubSeq(rest, 1, maxLength))
           cut == IF at > 0 THEN at ELSE maxLength
       IN <<SubSeq(rest, 1, cut)>>
            \o CutAsDescribed(Trim(SubSeq(rest, cut + 1, Len(rest))), maxLength)

\* The list has the pieces as a run of consecutive elements.
HasRun(list, pieces) ==
  \E at \in 0..(Len(list) - Len(pieces)) :
    SubSeq(list, at + 1, at + Len(pieces)) = pieces

\* C24: a sentence or paragraph longer than maxLength is cut at the last
\* whitespace before the limit, at maxLength when there is none; the pieces
\* are non-empty and at most maxLength long; a remainder that fits within
\* maxLength is one piece.
HardSplitAsDescribed ==
  (pc = "done" /\ variant \in {"Paragraph", "Sentence"}) =>
    \A u \in Range(UnitsFound) :
      lengthFunction(u) > inst.maxLength =>
        /\ HasRun(splits, CutAsDescribed(u, inst.maxLength))
        /\ \A p \in Range(CutAsDescribed(u, inst.maxLength)) :
             p # <<>> /\ Len(p) <= inst.maxLength

----------------------------------------------------------------------------
(* Properties of the running total (under SpecMerge).                      *)

\* The sum of lengthFunction over a list of fragments.
RECURSIVE SumSizes(_)
SumSizes(frags) ==
  IF frags = <<>> THEN 0 ELSE lengthFunction(Head(frags)) + SumSizes(Tail(frags))

\* The running total is the sum of the sizes in the window, and the join of
\* a window of n fragments is total + (n - 1) * |separator| characters long,
\* for the window as it stands and for the window of every chunk.
TotalIsSum ==
  ~merge.threw =>
    /\ merge.total = SumSizes(merge.currentDoc)
    /\ merge.currentDoc # <<>> =>
         Len(Join(merge.currentDoc, separator)) =
           merge.total + (Len(merge.currentDoc) - 1) * Len(separator)
    /\ \A i \in 1..Len(merge.wins) :
         LET w == SubSeq(splits, merge.wins[i][1], merge.wins[i][2])
         IN /\ Len(Join(w, separator)) = SumSizes(w) + (Len(w) - 1) * Len(separator)
            /\ Len(merge.docs[i]) <= SumSizes(w) + (Len(w) - 1) * Len(separator)

\* An iteration flushes exactly when the window is not empty and the total,
\* the incoming fragment and one separator exceed chunkSize.
FlushTestChargesOnce ==
  (pc = "merging" /\ merge.seen < Len(splits) /\ ~merge.threw) =>
    ((Len(merge'.flushes) > Len(merge.flushes)) <=>
       /\ merge.currentDoc # <<>>
       /\ merge.total + lengthFunction(splits[merge.seen + 1]) + Len(separator)
            > inst.chunkSize)

\* C25: at every iteration the running total is the sum of the sizes of the
\* fragments in the window, no separator counted; a chunk from a window of n
\* fragments is total + (n - 1) * |separator| long before trimming; the flush
\* test charges the separator once at most.
RunningTotal == []TotalIsSum /\ [][FlushTestChargesOnce]_vars

\* C25 witness: a window of three fragments was not flushed by the test, and
\* its join, with the separator twice in it, is longer than chunkSize.
JoinLongerThanTested ==
  /\ pc = "merging" /\ ~merge.threw
  /\ Len(merge.currentDoc) >= 3 /\ Len(separator) = 2
  /\ merge.flushes = <<>>
  /\ merge.total + Len(separator) <= inst.chunkSize
  /\ Len(Join(merge.currentDoc, separator)) > inst.chunkSize

----------------------------------------------------------------------------
(* Properties of the recursive splitter's failures (under SpecRec).        *)

\* C26: splitText of the recursive splitter returns normally for every text,
\* every non-empty separator list and either keepSeparator setting: no call
\* ends by throwing.
RecursiveNeverThrows ==
  (variant = "Recursive" /\ inst # NoInstance /\ inst.separators # <<>>) => pc # "threw"

----------------------------------------------------------------------------
(* Properties of the chunk search of createDocuments (under SpecDocs).     *)

\* C27: every chunk splitText returned for a text occurs in the text, and
\* the search createDocuments made for each chunk it has handled found it.
EveryChunkFound ==
  job.pc = "chunk" =>
    /\ \A k \in 1..Len(job.chunks) : IsSubstring(job.chunks[k], text)
    /\ job.prevChunk # Null => job.indexPrevChunk >= 0

----------------------------------------------------------------------------
(* Properties of fragment coverage (under SpecMerge).                      *)

\* The flushes whose window holds fragment k.
FlushesHolding(k) ==
  {n \in 1..Len(merge.flushes) : merge.flushes[n][1] <= k /\ k <= merge.flushes[n][2]}

\* C28: every fragment read so far is in the window, where it was placed
\* once, or left it after a flush whose window held it; when mergeSplits
\* returns every fragment was in the window of a flush, and with
\* chunkOverlap = 0 and no empty fragment in the window of exactly one.
EveryFragmentFlushed ==
  ~merge.threw =>
    /\ merge.currentDoc = SubSeq(splits, merge.first, merge.seen)
    /\ \A k \in 1..merge.seen : k < merge.first => FlushesHolding(k) # {}
    /\ pc = "done" =>
         /\ merge.seen = Len(splits)
         /\ \A k \in 1..Len(splits) : FlushesHolding(k) # {}
         /\ (inst.chunkOverlap = 0 /\ \A k \in 1..Len(splits) : splits[k] # <<>>) =>
              \A k \in 1..Len(splits) : Cardinality(FlushesHolding(k)) = 1

\* C28 witness: with chunkOverlap = 0 and no empty fragment, three fragments
\* went through two flushes or more, and one of the windows flushed gave no
\* chunk because its text trims to empty.
FragmentFlushedButNotEmitted ==
  /\ pc = "done" /\ inst.chunkOverlap = 0
  /\ Len(splits) = 3 /\ \A k \in 1..Len(splits) : splits[k] # <<>>
  /\ Len(merge.flushes) >= 2
  /\ Len(merge.docs) < Len(merge.flushes)

----------------------------------------------------------------------------
(* Properties of the loops of splitText (under SpecLoops).                 *)

\* What an iteration of a loop leaves to do is less than what it found.
IterationProgresses ==
  /\ (loop.pc = "token" /\ loop'.pc = "token" /\ loop'.turns > loop.turns) =>
       Len(loop.inputIds) - loop'.startIdx < Len(loop.inputIds) - loop.startIdx
  /\ (loop.pc = "hard" /\ loop'.pc = "hard" /\ loop'.turns > loop.turns) =>
       Len(loop'.remainingText) < Len(loop.remainingText)

\* A loop has made no more iterations than the text has characters.
IterationsWithinText == loop # NoLoop => loop.turns <= Len(text)

\* C29: for every splitter that was constructed, the token-window loop and
\* the hard-split loops make strict progress on each iteration, so that
\* splitText ends after no more iterations than the text has characters.
LoopsTerminate == []IterationsWithinText /\ [][IterationProgresses]_vars

----------------------------------------------------------------------------
(* Properties of the documents of createDocuments (under SpecDocs).        *)

\* The chunks splitText returns for a text.
ChunksOf(t) == charSplitText(t, inst).docs

\* The number of chunks of the texts before text ti.
RECURSIVE ChunksBefore(_, _)
ChunksBefore(texts, ti) ==
  IF ti <= 1 THEN 0
  ELSE ChunksBefore(texts, ti - 1) + Len(ChunksOf(texts[ti - 1]))

\* The metadata object the caller gave for text ti, {} when none was given.
GivenFor(ti) == IF job.given = <<>> THEN NoFields ELSE job.given[ti]

\* A document carries the keys of the caller's object, and in loc the keys
\* of the caller's loc object, if it is one, with lines set.
CarriesMetadata(d) ==
  LET entry == GivenFor(d.textIndex)
  IN /\ DOMAIN d.metadata = DOMAIN entry \cup {"loc"}
     /\ \A key \in DOMAIN entry \ {"loc"} : d.metadata[key] = entry[key]
     /\ "lines" \in DOMAIN d.metadata.loc
     /\ d.metadata.loc.lines = [from |-> d.from, to |-> d.to]
     /\ HasObjectLoc(entry) =>
          \A key \in DOMAIN entry.loc \ {"lines"} :
            key \in DOMAIN d.metadata.loc /\ d.metadata.loc[key] = entry.loc[key]

\* C30: createDocuments pushes one document per chunk, text after text in
\* the order given and chunk after chunk within a text; each document has
\* the keys of its text's metadata object, and loc.lines; the caller's
\* metadata objects are as they were passed; splitDocuments makes the call
\* createDocuments(contents, metadata of the documents).
DocumentsFrameAndShape ==
  job.pc \in {"text", "chunk", "done"} =>
    /\ \A n \in 1..Len(documents) :
         LET d == documents[n]
         IN /\ d.textIndex \in 1..Len(job.texts)
            /\ d.chunkIndex \in 1..Len(ChunksOf(job.texts[d.textIndex]))
            /\ d.chunk = ChunksOf(job.texts[d.textIndex])[d.chunkIndex]
            /\ n = ChunksBefore(job.texts, d.textIndex) + d.chunkIndex
            /\ CarriesMetadata(d)
    /\ job.pc = "done" => Len(documents) = ChunksBefore(job.texts, Len(job.texts) + 1)
    /\ job.metadatas = job.given
    /\ job.via = "splitDocuments" =>
         /\ Len(job.texts) = Len(job.docs)
         /\ \A n \in 1..Len(job.docs) :
              /\ job.texts[n] = job.docs[n].pageContent
              /\ job.given[n] = job.docs[n].metadata

\* C30 witness: splitDocuments returned documents for two documents; the
\* first had a loc object with lines of its own, which its chunk's document
\* shows with other lines, the caller's object still having its own.
LocCopiedNotChanged ==
  /\ job.pc = "done" /\ job.via = "splitDocuments"
  /\ Len(job.docs) = 2 /\ Len(documents) = 2
  /\ documents[1].textIndex = 1 /\ documents[2].textIndex = 2
  /\ HasObjectLoc(job.docs[1].metadata)
  /\ documents[1].metadata.loc.lines # job.docs[1].metadata.loc.lines
  /\ job.metadatas[1].loc.lines = job.docs[1].metadata.loc.lines
  /\ documents[1].metadata.loc.page = job.docs[1].metadata.loc.page

====
